---- MODULE Spec2Model ----
(***************************************************************************)
(* Model of the response-generation pipeline of the AI Response Quality    *)
(* Analyzer backend: LLMService.generateResponse (model fallback, backoff, *)
(* mock fallback) and LLMService.generateMultipleResponses (sequential     *)
(* orchestration with pacing).                                             *)
(*                                                                         *)
(* Numbers with decimals are kept as integers in hundredths (0.7 -> 70).   *)
(* Delays are in milliseconds.  Indices i and attempt are 0-based as in    *)
(* the source; TLA+ sequences are 1-based, so element i is seq[i + 1].     *)
(* The tokensUsed and generationTime fields of a result are bookkeeping    *)
(* derived from lengths, wall-clock time and random jitter; they take no   *)
(* part in control flow and are left out of the result records.            *)
(***************************************************************************)
EXTENDS Integers, Sequences, FiniteSets, TLC

VARIABLES isMockMode, run, calc, http, db, cron

vars == <<isMockMode, run, calc, http, db, cron>>

\* what the steps of generateMultipleResponses leave alone
outsideRun == <<isMockMode, calc, http, db, cron>>

(***************************************************************************)
(* Bounds                                                                  *)
(***************************************************************************)
MaxTuples == 2

RunIds == {1, 2}

(***************************************************************************)
(* Characters and strings.  A prompt or a provider text is a sequence of   *)
(* one-character strings.                                                  *)
(***************************************************************************)
UpperChars == <<"A","B","C","D","E","F","G","H","I","J","K","L","M",
                "N","O","P","Q","R","S","T","U","V","W","X","Y","Z">>

LowerChars == <<"a","b","c","d","e","f","g","h","i","j","k","l","m",
                "n","o","p","q","r","s","t","u","v","w","x","y","z">>

WhitespaceChars == {" ", "\t", "\n"}

ToLowerChar(c) ==
    IF \E k \in DOMAIN UpperChars : UpperChars[k] = c
    THEN LowerChars[CHOOSE k \in DOMAIN UpperChars : UpperChars[k] = c]
    ELSE c

ToLowerCase(s) == [k \in DOMAIN s |-> ToLowerChar(s[k])]

\* String.prototype.includes: kw occurs in s as a contiguous substring
Includes(s, kw) ==
    \E start \in 1..(Len(s) - Len(kw) + 1) :
        \A k \in 1..Len(kw) : s[start + k - 1] = kw[k]

RECURSIVE TrimStart(_)
TrimStart(s) ==
    IF s = <<>> THEN <<>>
    ELSE IF Head(s) \in WhitespaceChars THEN TrimStart(Tail(s))
    ELSE s

RECURSIVE TrimEnd(_)
TrimEnd(s) ==
    IF s = <<>> THEN <<>>
    ELSE IF s[Len(s)] \in WhitespaceChars THEN TrimEnd(SubSeq(s, 1, Len(s) - 1))
    ELSE s

\* String.prototype.trim
Trim(s) == TrimEnd(TrimStart(s))

Min(a, b) == IF a < b THEN a ELSE b

RECURSIVE Pow2(_)
Pow2(n) == IF n = 0 THEN 1 ELSE 2 * Pow2(n - 1)

(***************************************************************************)
(* Inputs.  A GenerationParameters tuple keeps its four fields;            *)
(* temperature and top_p are in hundredths.  model "" stands for an absent *)
(* (or empty, equally falsy) model field.  NoParams is an undefined array  *)
(* element.                                                                *)
(***************************************************************************)
DefaultModel == "gemini-2.5-flash"

FallbackModels == <<"gemini-1.5-flash", "gemini-1.5-pro", "gemini-pro">>

RequestedModels == {"", "gemini-1.5-flash"}

Temperatures == {20, 80}

Params == [model : RequestedModels, temperature : Temperatures,
           top_p : {90}, max_tokens : {256}]

NoParams == [undefined |-> TRUE]

RECURSIVE SeqsUpTo(_, _)
SeqsUpTo(S, n) ==
    IF n = 0 THEN {<<>>}
    ELSE LET shorter == SeqsUpTo(S, n - 1)
         IN  shorter \cup {Append(q, x) : q \in {t \in shorter : Len(t) = n - 1}, x \in S}

TupleLists == SeqsUpTo(Params \cup {NoParams}, MaxTuples)

Prompts == { <<"S","t","o","r","y">>, <<"h","i">> }

\* what model.generateContent / result.response / response.text() can do:
\* deliver a text, throw an error object (status 0: no status field), or
\* reject with a reason that is null or undefined
Texts == { <<>>, <<" ">>, <<"O","k","\n">> }

TransientStatuses == {429, 500, 502, 503}

Statuses == TransientStatuses \cup {0, 400, 404}

ProviderOutcomes ==
    [type : {"text"}, text : Texts]
      \cup [type : {"error"}, status : Statuses]
      \cup {[type |-> "nullish"]}

(***************************************************************************)
(* LLMService.generateResponse: the decisions                              *)
(***************************************************************************)
\* const modelsToTry = [parameters.model || 'gemini-2.5-flash', ...]
ModelsToTry(parameters) ==
    <<IF parameters.model # "" THEN parameters.model ELSE DefaultModel>>
      \o FallbackModels

\* error.status === 503 || 429 || 500 || 502
IsRetryable(status) == status \in TransientStatuses

\* Math.min(1000 * Math.pow(2, attempt), 5000)
BackoffDelay(attempt) == Min(1000 * Pow2(attempt), 5000)

\* !content || content.trim().length === 0
IsEmptyContent(content) == content = <<>> \/ Len(Trim(content)) = 0

\* variant: the catch block rethrows once the last model has failed
AttemptDecision_Rethrow(attempt, numModels, outcome) ==
    IF outcome.type = "text"
    THEN IF IsEmptyContent(outcome.text)
         THEN IF attempt = numModels - 1 THEN "mock" ELSE "next"
         ELSE "return"
    ELSE IF outcome.type = "nullish"
    THEN "raise"
    ELSE IF IsRetryable(outcome.status) /\ attempt < numModels - 1
    THEN "backoff"
    ELSE IF attempt = numModels - 1
    THEN "raise"
    ELSE "next"

\* variant: the empty-response check is missing, an empty text is returned
AttemptDecision_EmptyReturned(attempt, numModels, outcome) ==
    IF outcome.type = "text"
    THEN "return"
    ELSE IF outcome.type = "nullish"
    THEN "raise"
    ELSE IF IsRetryable(outcome.status) /\ attempt < numModels - 1
    THEN "backoff"
    ELSE IF attempt = numModels - 1
    THEN "mock"
    ELSE "next"

\* What one pass of the for loop does with the provider's outcome:
\*   "return"  return the remote result
\*   "next"    continue with the next model at once
\*   "backoff" sleep, then continue with the next model
\*   "mock"    return this.generateMockResponse(...)
\*   "raise"   the catch block itself throws (reading error.status of a
\*             null or undefined reason), so the promise rejects
AttemptDecision(attempt, numModels, outcome) ==
    IF outcome.type = "text"
    THEN IF IsEmptyContent(outcome.text)
         THEN IF attempt = numModels - 1 THEN "mock" ELSE "next"
         ELSE "return"
    ELSE IF outcome.type = "nullish"
    THEN "raise"
    ELSE IF IsRetryable(outcome.status) /\ attempt < numModels - 1
    THEN "backoff"
    ELSE IF attempt = numModels - 1
    THEN "mock"
    ELSE "next"

OutcomeClass(outcome) ==
    IF outcome.type = "text"
    THEN IF IsEmptyContent(outcome.text) THEN "empty" ELSE "text"
    ELSE IF outcome.type = "nullish" THEN "nullish"
    ELSE IF IsRetryable(outcome.status) THEN "transient"
    ELSE "permanent"

(***************************************************************************)
(* MockGenerator                                                           *)
(***************************************************************************)
KwStory == <<"s","t","o","r","y">>
KwCreative == <<"c","r","e","a","t","i","v","e">>
KwWrite == <<"w","r","i","t","e">>
KwExplain == <<"e","x","p","l","a","i","n">>
KwHow == <<"h","o","w">>
KwWhatIs == <<"w","h","a","t"," ","i","s">>
KwQuestionMark == <<"?">>
KwQuestion == <<"q","u","e","s","t","i","o","n">>
KwCode == <<"c","o","d","e">>
KwProgram == <<"p","r","o","g","r","a","m">>
KwFunction == <<"f","u","n","c","t","i","o","n">>

\* variant: the explanation keywords are tested before the creative ones
MockCategory_ExplanationFirst(prompt) ==
    LET promptLower == ToLowerCase(prompt)
    IN  IF Includes(promptLower, KwExplain) \/ Includes(promptLower, KwHow)
           \/ Includes(promptLower, KwWhatIs)
        THEN "explanation"
        ELSE IF Includes(promptLower, KwStory) \/ Includes(promptLower, KwCreative)
                \/ Includes(promptLower, KwWrite)
        THEN "creative"
        ELSE IF Includes(promptLower, KwQuestionMark) \/ Includes(promptLower, KwQuestion)
        THEN "qa"
        ELSE IF Includes(promptLower, KwCode) \/ Includes(promptLower, KwProgram)
                \/ Includes(promptLower, KwFunction)
        THEN "code"
        ELSE "general"

\* generateRealisticMockResponse: which generator the prompt is sent to
MockCategory(prompt) ==
    LET promptLower == ToLowerCase(prompt)
    IN  IF Includes(promptLower, KwStory) \/ Includes(promptLower, KwCreative)
           \/ Includes(promptLower, KwWrite)
        THEN "creative"
        ELSE IF Includes(promptLower, KwExplain) \/ Includes(promptLower, KwHow)
                \/ Includes(promptLower, KwWhatIs)
        THEN "explanation"
        ELSE IF Includes(promptLower, KwQuestionMark) \/ Includes(promptLower, KwQuestion)
        THEN "qa"
        ELSE IF Includes(promptLower, KwCode) \/ Includes(promptLower, KwProgram)
                \/ Includes(promptLower, KwFunction)
        THEN "code"
        ELSE "general"

\* variant: the explanation generator changes its wording at 0.4
MockLevel_ExplanationAt40(category, temperature) ==
    CASE category = "creative" ->
           IF temperature > 70 THEN "highly imaginative"
           ELSE IF temperature > 40 THEN "moderately creative"
           ELSE "structured"
      [] category = "explanation" ->
           IF temperature < 40 THEN "precise and technical"
           ELSE "conversational and accessible"
      [] category = "qa" ->
           IF temperature < 40 THEN "direct and concise"
           ELSE "comprehensive and nuanced"
      [] category = "code" ->
           IF temperature > 60 THEN "detailed and comprehensive"
           ELSE "concise and focused"
      [] OTHER ->
           IF temperature > 70 THEN "creative and engaging"
           ELSE IF temperature < 30 THEN "formal and structured"
           ELSE "balanced and informative"

\* the wording each generator derives from parameters.temperature
MockLevel(category, temperature) ==
    CASE category = "creative" ->
           IF temperature > 70 THEN "highly imaginative"
           ELSE IF temperature > 40 THEN "moderately creative"
           ELSE "structured"
      [] category = "explanation" ->
           IF temperature < 50 THEN "precise and technical"
           ELSE "conversational and accessible"
      [] category = "qa" ->
           IF temperature < 40 THEN "direct and concise"
           ELSE "comprehensive and nuanced"
      [] category = "code" ->
           IF temperature > 60 THEN "detailed and comprehensive"
           ELSE "concise and focused"
      [] OTHER ->
           IF temperature > 70 THEN "creative and engaging"
           ELSE IF temperature < 30 THEN "formal and structured"
           ELSE "balanced and informative"

\* lengths of the five template paragraphs of each generator, without the
\* interpolated wording
MockTemplateLengths(category) ==
    CASE category = "creative" -> <<234, 289, 299, 268, 243>>
      [] category = "explanation" -> <<241, 252, 279, 244, 250>>
      [] category = "qa" -> <<207, 216, 230, 215, 220>>
      [] category = "code" -> <<221, 197, 211, 221, 214>>
      [] OTHER -> <<218, 208, 205, 242, 240>>

\* Math.floor(Math.random() * responses.length)
MockTemplateIndexes(category) == 0..(Len(MockTemplateLengths(category)) - 1)

\* generateMockResponse: the contents it can produce
GenerateMockResponse(prompt, parameters) ==
    LET category == MockCategory(prompt)
    IN  { [kind |-> "mock", category |-> category,
           level |-> MockLevel(category, parameters.temperature),
           template |-> k] : k \in MockTemplateIndexes(category) }

RemoteContent(text) == [kind |-> "remote", text |-> text]

\* content.length
ContentLength(content) ==
    IF content.kind = "remote" THEN Len(content.text)
    ELSE IF content.template + 1 \in DOMAIN MockTemplateLengths(content.category)
    THEN MockTemplateLengths(content.category)[content.template + 1] + Len(content.level)
    ELSE 0

(***************************************************************************)
(* State.  isMockMode is the field the LLMService constructor sets; the    *)
(* service is the module-level singleton every run uses.  run[r] is one    *)
(* invocation of generateMultipleResponses (one experiment run):           *)
(*   pc         "idle" not called yet, "loop" at the head of the for loop, *)
(*              "await" awaiting the provider inside generateResponse,     *)
(*              "backoff" in the retry sleep, "pace" in the pacing sleep,  *)
(*              "returned"                                                 *)
(*   prompt, tuples   the arguments                                        *)
(*   i, attempt       the two loop counters                                *)
(*   inFlight         provider requests submitted and not yet settled      *)
(*   sleepMs          the setTimeout delay being waited for, 0 if none     *)
(*   results          the results array                                    *)
(*   returned, batchLog   the returned array and the counts of the final   *)
(*              log line, each <<>> until the call returns                 *)
(* and, recorded for the properties only:                                  *)
(*   submitted  model ids sent to the provider in the current call         *)
(*   lastOutcome  class of the latest provider outcome of the current call *)
(*   emptyCount   number of empty texts the provider returned in that call *)
(*   mockCalls  number of generateMockResponse invocations in that call    *)
(*   callStatus per index reached: "resolved", "raised" or "skipped"       *)
(*   delays     the pacing delays that have elapsed                        *)
(***************************************************************************)
IdleRun ==
    [pc |-> "idle", prompt |-> <<>>, tuples |-> <<>>, i |-> 0, attempt |-> 0,
     inFlight |-> {}, sleepMs |-> 0, results |-> <<>>, returned |-> <<>>,
     batchLog |-> <<>>, submitted |-> <<>>, lastOutcome |-> "none", emptyCount |-> 0,
     mockCalls |-> 0,
     callStatus |-> <<>>, delays |-> <<>>]

\* no pure function under evaluation, no POST /api/generate received, empty
\* experiment, response and metricCalculation tables
NoCalc == [fn |-> "none"]

NoRequest == [pc |-> "none"]

EmptyDb == [experiments |-> <<>>, responses |-> <<>>, metricCalculations |-> <<>>]

\* a CronService after its constructor: not running, no task
NewCronService ==
    [isRunning |-> FALSE, cronTask |-> <<>>, scheduled |-> {}, created |-> 0,
     timers |-> 0, pings |-> 0, status |-> <<>>, op |-> "none", lastCall |-> "none"]

Init ==
    /\ isMockMode \in BOOLEAN
    /\ run = [r \in RunIds |-> IdleRun]
    /\ calc = NoCalc
    /\ http = NoRequest
    /\ db = EmptyDb
    /\ cron = NewCronService

\* parameterCombinations[i]
ParamsAt(rec) == rec.tuples[rec.i + 1]

\* generateMultipleResponses is called: const results = []; i = 0
Begin(r) ==
    /\ run[r].pc = "idle"
    /\ \E prompt \in Prompts, tuples \in TupleLists :
         run' = [run EXCEPT ![r] = [IdleRun EXCEPT !.pc = "loop",
                                                  !.prompt = prompt,
                                                  !.tuples = tuples]]
    /\ UNCHANGED outsideRun

\* model.generateContent(enhancedPrompt) for modelsToTry[attempt]
SubmitRequest(rec, attempt) ==
    LET modelName == ModelsToTry(ParamsAt(rec))[attempt + 1]
    IN  [rec EXCEPT !.pc = "await",
                    !.attempt = attempt,
                    !.sleepMs = 0,
                    !.inFlight = @ \cup {[idx |-> rec.i, attempt |-> attempt,
                                          model |-> modelName]},
                    !.submitted = Append(@, modelName)]

\* variant: the same delay after a resolved and after a rejected call
PacingDelay_Flat(status) == IF status = "resolved" THEN 1000 ELSE 1000

\* const delay = 1000 after a resolved call, 3000 in the catch block
PacingDelay(status) == IF status = "resolved" THEN 1000 ELSE 3000

\* variant: a delay after the last call as well
NeedsPacing_AfterLast(i, numTuples) == i < numTuples

\* if (i < parameterCombinations.length - 1)
NeedsPacing(i, numTuples) == i < numTuples - 1

\* the rest of the loop body once the awaited generateResponse has settled
AfterSettle(rec, status) ==
    IF NeedsPacing(rec.i, Len(rec.tuples))
    THEN [rec EXCEPT !.pc = "pace", !.sleepMs = PacingDelay(status),
                     !.callStatus = Append(@, status)]
    ELSE [rec EXCEPT !.pc = "loop", !.i = @ + 1,
                     !.callStatus = Append(@, status)]

\* variant: results.unshift(...)
PushResult_Unshift(results, content, params) ==
    <<[content |-> content, parameters |-> params]>> \o results

\* results.push({...result, parameters: params})
PushResult(results, content, params) ==
    Append(results, [content |-> content, parameters |-> params])

\* try branch: generateResponse resolved with content
Resolved(rec, content) ==
    AfterSettle([rec EXCEPT !.results = PushResult(@, content, ParamsAt(rec))],
                "resolved")

\* catch branch: generateResponse rejected
Raised(rec) == AfterSettle(rec, "raised")

\* if (!params) continue
SkipInvalid(r) ==
    LET rec == run[r]
    IN  /\ rec.pc = "loop"
        /\ rec.i < Len(rec.tuples)
        /\ ParamsAt(rec) = NoParams
        /\ run' = [run EXCEPT ![r] = [rec EXCEPT !.i = @ + 1,
                                                 !.callStatus = Append(@, "skipped")]]
        /\ UNCHANGED outsideRun

\* variant: the mock-mode branch builds the mock response but does not
\* return it, so the model loop starts all the same
CallInMockMode_NoReturn(r) ==
    LET rec == run[r]
    IN  /\ rec.pc = "loop"
        /\ rec.i < Len(rec.tuples)
        /\ ParamsAt(rec) # NoParams
        /\ isMockMode
        /\ run' = [run EXCEPT ![r] =
                     SubmitRequest([rec EXCEPT !.submitted = <<>>,
                                               !.lastOutcome = "none",
                                               !.emptyCount = 0,
                                               !.mockCalls = 1], 0)]
        /\ UNCHANGED outsideRun

\* generateResponse in mock mode: return this.generateMockResponse(...)
CallInMockMode(r) ==
    LET rec == run[r]
    IN  /\ rec.pc = "loop"
        /\ rec.i < Len(rec.tuples)
        /\ ParamsAt(rec) # NoParams
        /\ isMockMode
        /\ \E content \in GenerateMockResponse(rec.prompt, ParamsAt(rec)) :
             run' = [run EXCEPT ![r] =
                       Resolved([rec EXCEPT !.submitted = <<>>, !.lastOutcome = "none",
                                            !.emptyCount = 0,
                                            !.mockCalls = 1], content)]
        /\ UNCHANGED outsideRun

\* variant: the call is started but not awaited (fan-out), the loop goes on
CallFirstModel_NoAwait(r) ==
    LET rec == run[r]
    IN  /\ rec.pc = "loop"
        /\ rec.i < Len(rec.tuples)
        /\ ParamsAt(rec) # NoParams
        /\ ~isMockMode
        /\ run' = [run EXCEPT ![r] =
                     [SubmitRequest([rec EXCEPT !.submitted = <<>>,
                                                !.lastOutcome = "none",
                                                !.emptyCount = 0,
                                                !.mockCalls = 0], 0)
                        EXCEPT !.pc = "loop", !.i = @ + 1,
                               !.callStatus = Append(@, "resolved")]]
        /\ UNCHANGED outsideRun

\* generateResponse with credentials: attempt 0 of the for loop
CallFirstModel(r) ==
    LET rec == run[r]
    IN  /\ rec.pc = "loop"
        /\ rec.i < Len(rec.tuples)
        /\ ParamsAt(rec) # NoParams
        /\ ~isMockMode
        /\ run' = [run EXCEPT ![r] =
                     SubmitRequest([rec EXCEPT !.submitted = <<>>, !.lastOutcome = "none",
                                            !.emptyCount = 0,
                                               !.mockCalls = 0], 0)]
        /\ UNCHANGED outsideRun

\* the request being awaited
Awaited(rec) == {req \in rec.inFlight : req.idx = rec.i /\ req.attempt = rec.attempt}

\* the provider's outcome has arrived: the request is no longer in flight
Settle(rec, req, outcome) ==
    [rec EXCEPT !.inFlight = @ \ {req},
                !.lastOutcome = OutcomeClass(outcome),
                !.emptyCount = IF OutcomeClass(outcome) = "empty" THEN @ + 1 ELSE @]

NumModels(rec) == Len(ModelsToTry(ParamsAt(rec)))

\* non-empty text: return {content, tokensUsed, generationTime}
ReturnRemote(r) ==
    LET rec == run[r]
    IN  /\ rec.pc = "await"
        /\ \E req \in Awaited(rec), outcome \in ProviderOutcomes :
             /\ AttemptDecision(rec.attempt, NumModels(rec), outcome) = "return"
             /\ run' = [run EXCEPT ![r] =
                          Resolved(Settle(rec, req, outcome), RemoteContent(outcome.text))]
        /\ UNCHANGED outsideRun

\* continue: empty text, or an error that leaves the catch block without
\* a sleep and without a return
NextModel(r) ==
    LET rec == run[r]
    IN  /\ rec.pc = "await"
        /\ \E req \in Awaited(rec), outcome \in ProviderOutcomes :
             /\ AttemptDecision(rec.attempt, NumModels(rec), outcome) = "next"
             /\ run' = [run EXCEPT ![r] =
                          SubmitRequest(Settle(rec, req, outcome), rec.attempt + 1)]
        /\ UNCHANGED outsideRun

\* retryable error: await new Promise(resolve => setTimeout(resolve, delay))
Backoff(r) ==
    LET rec == run[r]
    IN  /\ rec.pc = "await"
        /\ \E req \in Awaited(rec), outcome \in ProviderOutcomes :
             /\ AttemptDecision(rec.attempt, NumModels(rec), outcome) = "backoff"
             /\ run' = [run EXCEPT ![r] =
                          [Settle(rec, req, outcome) EXCEPT
                             !.pc = "backoff",
                             !.sleepMs = BackoffDelay(rec.attempt)]]
        /\ UNCHANGED outsideRun

\* the backoff timer fires: continue with the next model
BackoffElapsed(r) ==
    LET rec == run[r]
    IN  /\ rec.pc = "backoff"
        /\ run' = [run EXCEPT ![r] = SubmitRequest(rec, rec.attempt + 1)]
        /\ UNCHANGED outsideRun

\* last model empty or failed: return this.generateMockResponse(...)
\* variant: after the fallback the service stays in mock mode
FallbackToMock_EntersMockMode(r) ==
    LET rec == run[r]
    IN  /\ rec.pc = "await"
        /\ \E req \in Awaited(rec), outcome \in ProviderOutcomes :
             /\ AttemptDecision(rec.attempt, NumModels(rec), outcome) = "mock"
             /\ \E content \in GenerateMockResponse(rec.prompt, ParamsAt(rec)) :
                  run' = [run EXCEPT ![r] =
                            Resolved([Settle(rec, req, outcome) EXCEPT !.mockCalls = @ + 1],
                                     content)]
        /\ isMockMode' = TRUE
        /\ UNCHANGED <<calc, http, db, cron>>

FallbackToMock(r) ==
    LET rec == run[r]
    IN  /\ rec.pc = "await"
        /\ \E req \in Awaited(rec), outcome \in ProviderOutcomes :
             /\ AttemptDecision(rec.attempt, NumModels(rec), outcome) = "mock"
             /\ \E content \in GenerateMockResponse(rec.prompt, ParamsAt(rec)) :
                  run' = [run EXCEPT ![r] =
                            Resolved([Settle(rec, req, outcome) EXCEPT !.mockCalls = @ + 1],
                                     content)]
        /\ UNCHANGED outsideRun

\* the catch block throws: generateResponse rejects, the orchestrator's
\* catch logs it and goes on
RaiseFromCatch(r) ==
    LET rec == run[r]
    IN  /\ rec.pc = "await"
        /\ \E req \in Awaited(rec), outcome \in ProviderOutcomes :
             /\ AttemptDecision(rec.attempt, NumModels(rec), outcome) = "raise"
             /\ run' = [run EXCEPT ![r] = Raised(Settle(rec, req, outcome))]
        /\ UNCHANGED outsideRun

\* the pacing timer fires: i++
PaceElapsed(r) ==
    LET rec == run[r]
    IN  /\ rec.pc = "pace"
        /\ run' = [run EXCEPT ![r] =
                     [rec EXCEPT !.pc = "loop", !.i = @ + 1, !.sleepMs = 0,
                                 !.delays = Append(@, [after |-> rec.i, ms |-> rec.sleepMs])]]
        /\ UNCHANGED outsideRun

\* variant: the log line prints the produced count on both sides
Finish_LogProducedTwice(r) ==
    LET rec == run[r]
    IN  /\ rec.pc = "loop"
        /\ rec.i >= Len(rec.tuples)
        /\ run' = [run EXCEPT ![r] =
                     [rec EXCEPT !.pc = "returned",
                                 !.batchLog = <<[produced |-> Len(rec.results),
                                                 attempted |-> Len(rec.results)]>>,
                                 !.returned = <<rec.results>>]]
        /\ UNCHANGED outsideRun

\* loop exit: log `${results.length}/${parameterCombinations.length}`, return results
Finish(r) ==
    LET rec == run[r]
    IN  /\ rec.pc = "loop"
        /\ rec.i >= Len(rec.tuples)
        /\ run' = [run EXCEPT ![r] =
                     [rec EXCEPT !.pc = "returned",
                                 !.batchLog = <<[produced |-> Len(rec.results),
                                                 attempted |-> Len(rec.tuples)]>>,
                                 !.returned = <<rec.results>>]]
        /\ UNCHANGED outsideRun

Step(r) ==
    \/ Begin(r)
    \/ SkipInvalid(r)
    \/ CallInMockMode(r)
    \/ CallFirstModel(r)
    \/ ReturnRemote(r)
    \/ NextModel(r)
    \/ Backoff(r)
    \/ BackoffElapsed(r)
    \/ FallbackToMock(r)
    \/ RaiseFromCatch(r)
    \/ PaceElapsed(r)
    \/ Finish(r)

\* one experiment run
Next == Step(1)

Spec == Init /\ [][Next]_vars

(***************************************************************************)
(* Properties                                                              *)
(***************************************************************************)
\* index (1-based) of the latest tuple generateResponse was called for and
\* has settled, 0 if there is none
LastCallIndex(rec) ==
    LET called == {k \in DOMAIN rec.callStatus : rec.callStatus[k] # "skipped"}
    IN  IF called = {} THEN 0
        ELSE CHOOSE k \in called : \A j \in called : j <= k

\* no generateResponse call is running and one has settled; lastOutcome,
\* emptyCount, mockCalls and submitted then describe that call
CallJustSettled(rec) ==
    /\ rec.pc \in {"pace", "loop", "returned"}
    /\ LastCallIndex(rec) > 0

LastCallStatus(rec) == rec.callStatus[LastCallIndex(rec)]

\* the tuple of the latest call that settled
SettledParams(rec) == rec.tuples[LastCallIndex(rec)]

LastResult(rec) == rec.results[Len(rec.results)]

C2_PermanentErrorFallsToMock ==
    \A r \in RunIds :
        run[r].lastOutcome = "permanent" =>
            /\ run[r].mockCalls = 1
            /\ run[r].inFlight = {}
            /\ run[r].pc \notin {"await", "backoff"}

\* C3: a transient error at attempt k, not the last, is followed by a sleep
\* of min(1000 * 2^k, 5000) ms (never more than 5000 ms), and after that
\* sleep the next model of the list is requested, which is a model that has
\* not been requested before in this call; a transient error of the last
\* model is followed by no such sleep.
C3_BackoffThenNextModel ==
    [][\A r \in RunIds :
         LET rec == run[r]
             new == run'[r]
         IN  /\ (rec.pc = "await" /\ new # rec /\ new.lastOutcome = "transient") =>
                   IF rec.attempt < NumModels(rec) - 1
                   THEN /\ new.pc = "backoff"
                        /\ new.sleepMs = Min(1000 * Pow2(rec.attempt), 5000)
                        /\ new.sleepMs <= 5000
                        /\ new.inFlight = {}
                   ELSE new.pc # "backoff"
             /\ (rec.pc = "backoff" /\ new # rec) =>
                   /\ new.pc = "await"
                   /\ new.attempt = rec.attempt + 1
                   /\ new.submitted =
                        Append(rec.submitted, ModelsToTry(ParamsAt(rec))[rec.attempt + 2])
                   /\ \A k \in DOMAIN rec.submitted :
                        rec.submitted[k] # new.submitted[Len(new.submitted)]
      ]_vars

\* C4: an empty or whitespace-only text is a soft failure: after one from a
\* model that is not the last, the next model is being requested and the
\* call has not settled (nothing was raised); after one from the last model
\* the call has resolved with a mock result of non-zero length; so a call
\* in which all models returned empty text resolves with a non-empty mock.
C4_EmptyIsSoftFailure ==
    \A r \in RunIds :
        LET rec == run[r]
        IN  rec.lastOutcome = "empty" =>
                  \/ /\ rec.pc = "await"
                     /\ rec.attempt >= 1
                     /\ Len(rec.callStatus) = rec.i
                     /\ \E req \in rec.inFlight :
                          /\ req.attempt = rec.attempt
                          /\ req.model = ModelsToTry(ParamsAt(rec))[rec.attempt + 1]
                  \/ /\ CallJustSettled(rec)
                     /\ rec.attempt = Len(ModelsToTry(SettledParams(rec))) - 1
                     /\ LastCallStatus(rec) = "resolved"
                     /\ rec.results # <<>>
                     /\ LastResult(rec).content.kind = "mock"
                     /\ ContentLength(LastResult(rec).content) > 0

\* every model of the list returned empty text and the call resolved with a
\* non-empty mock result
C4_Witness ==
    \E r \in RunIds :
        /\ CallJustSettled(run[r])
        /\ run[r].emptyCount = Len(ModelsToTry(SettledParams(run[r])))
        /\ LastResult(run[r]).content.kind = "mock"
        /\ ContentLength(LastResult(run[r]).content) > 0

\* C5: within one generateResponse call no model id is submitted to the
\* provider more than once.
C5_NoModelSubmittedTwice ==
    \A r \in RunIds :
        \A a, b \in DOMAIN run[r].submitted :
            a # b => run[r].submitted[a] # run[r].submitted[b]

\* C6: the mock fallback is terminal for the call: once generateMockResponse
\* has been invoked, it has been invoked exactly once, no provider request
\* is in flight or still to come in that call (the call is neither awaiting
\* nor backing off), and the call has resolved with that mock result.
C6_MockIsTerminal ==
    \A r \in RunIds :
        LET rec == run[r]
        IN  rec.mockCalls >= 1 =>
              /\ rec.mockCalls = 1
              /\ rec.inFlight = {}
              /\ CallJustSettled(rec)
              /\ LastCallStatus(rec) = "resolved"
              /\ rec.results # <<>>
              /\ LastResult(rec).content.kind = "mock"
              /\ LastResult(rec).parameters = SettledParams(rec)

\* with credentials, some models were requested, the mock fallback was
\* taken, and the orchestrator has moved on to a later tuple
C6_Witness ==
    \E r \in RunIds :
        /\ ~isMockMode
        /\ run[r].mockCalls = 1
        /\ run[r].submitted # <<>>
        /\ run[r].pc = "loop"
        /\ run[r].i < Len(run[r].tuples)

\* the tuples of the indexes 1..n whose call resolved, in input order
RECURSIVE ResolvedTuples(_, _, _)
ResolvedTuples(tuples, callStatus, n) ==
    IF n = 0 THEN <<>>
    ELSE IF callStatus[n] = "resolved"
    THEN Append(ResolvedTuples(tuples, callStatus, n - 1), tuples[n])
    ELSE ResolvedTuples(tuples, callStatus, n - 1)

\* C7: at every moment the results are exactly the tuples whose call has
\* resolved, in input order, each result carrying its tuple; the returned
\* array is that sequence once every index has been dealt with; when no
\* call raised and no element was undefined there is one result per tuple.
C7_ResultsAreResolvedTuplesInOrder ==
    \A r \in RunIds :
        LET rec == run[r]
        IN  /\ Len(rec.callStatus) <= Len(rec.tuples)
            /\ [k \in DOMAIN rec.results |-> rec.results[k].parameters]
                 = ResolvedTuples(rec.tuples, rec.callStatus, Len(rec.callStatus))
            /\ rec.returned # <<>> =>
                 /\ rec.returned[1] = rec.results
                 /\ Len(rec.callStatus) = Len(rec.tuples)
                 /\ (\A k \in DOMAIN rec.callStatus : rec.callStatus[k] = "resolved")
                      => Len(rec.returned[1]) = Len(rec.tuples)

\* a run of two different tuples returned after the call for the first
\* raised and the call for the second resolved
C7_Witness ==
    \E r \in RunIds :
        /\ run[r].returned # <<>>
        /\ run[r].callStatus = <<"raised", "resolved">>
        /\ run[r].tuples[1] # run[r].tuples[2]
        /\ Len(run[r].returned[1]) = 1
        /\ run[r].returned[1][1].parameters = run[r].tuples[2]

\* C8: at most one provider call of a run is in flight; while one is, the
\* run is awaiting it and is in no sleep, it is the call for the current
\* tuple, every earlier tuple has settled (or was skipped), and the pacing
\* delay after every earlier call has elapsed.
C8_OneCallInFlight ==
    \A r \in RunIds :
        LET rec == run[r]
        IN  /\ Cardinality(rec.inFlight) <= 1
            /\ rec.pc \in {"backoff", "pace"} => rec.inFlight = {}
            /\ rec.inFlight # {} =>
                 /\ rec.pc = "await"
                 /\ rec.sleepMs = 0
                 /\ \A req \in rec.inFlight : req.idx = rec.i
                 /\ Len(rec.callStatus) = rec.i
                 /\ \A k \in DOMAIN rec.callStatus :
                      rec.callStatus[k] # "skipped" =>
                        \E j \in DOMAIN rec.delays : rec.delays[j].after = k - 1

\* the call for the second tuple is in flight after the first call settled
\* and its pacing delay elapsed
C8_Witness ==
    \E r \in RunIds :
        /\ run[r].inFlight # {}
        /\ run[r].i = 1
        /\ run[r].callStatus # <<>>
        /\ run[r].callStatus[1] # "skipped"
        /\ run[r].delays # <<>>

\* C9: every pacing delay follows a call (never a skipped element), is 1000
\* ms when that call resolved and 3000 ms when it raised, and never follows
\* the last tuple; no call is followed by two delays; and once the loop has
\* passed a call that is not for the last tuple, its delay has elapsed, so
\* between two successive calls there is exactly one delay.
C9_PacingDelays ==
    \A r \in RunIds :
        LET rec == run[r]
        IN  /\ \A j \in DOMAIN rec.delays :
                 LET a == rec.delays[j].after
                 IN  /\ a + 1 \in DOMAIN rec.callStatus
                     /\ rec.callStatus[a + 1] \in {"resolved", "raised"}
                     /\ rec.delays[j].ms =
                          (IF rec.callStatus[a + 1] = "resolved" THEN 1000 ELSE 3000)
                     /\ a < Len(rec.tuples) - 1
            /\ \A j, k \in DOMAIN rec.delays :
                 j < k => rec.delays[j].after < rec.delays[k].after
            /\ \A k \in DOMAIN rec.callStatus :
                 (rec.callStatus[k] # "skipped" /\ k - 1 < rec.i /\ k < Len(rec.tuples)) =>
                    \E j \in DOMAIN rec.delays : rec.delays[j].after = k - 1
            /\ rec.pc = "pace" =>
                 /\ Len(rec.callStatus) = rec.i + 1
                 /\ rec.sleepMs =
                      (IF rec.callStatus[rec.i + 1] = "resolved" THEN 1000 ELSE 3000)

\* a run returned after a raised first call, one 3000 ms delay, and a
\* resolved second (last) call with no delay after it
C9_Witness ==
    \E r \in RunIds :
        /\ run[r].pc = "returned"
        /\ run[r].callStatus = <<"raised", "resolved">>
        /\ run[r].delays = <<[after |-> 0, ms |-> 3000]>>

\* the counts a caller can read off the value generateMultipleResponses
\* returned: it is a bare array, so its length and nothing else
ReportedCounts(rec) == {Len(rec.returned[1])}

Abs(x) == IF x < 0 THEN 0 - x ELSE x

RECURSIVE GCD(_, _)
GCD(a, b) == IF b = 0 THEN a ELSE GCD(b, a % b)

Rat(n, d) ==
    LET g == GCD(Abs(n), d)
    IN  [n |-> n \div g, d |-> d \div g]

RatAdd(a, b) == Rat(a.n * b.d + b.n * a.d, a.d * b.d)

RatSub(a, b) == Rat(a.n * b.d - b.n * a.d, a.d * b.d)

RatMul(a, b) == Rat(a.n * b.n, a.d * b.d)

\* a / b for b > 0
RatDiv(a, b) == Rat(a.n * b.d, a.d * b.n)

RatLess(a, b) == a.n * b.d < b.n * a.d

\* Math.min
RatMin(a, b) == IF RatLess(b, a) THEN b ELSE a

\* Math.abs
RatAbs(a) == [n |-> Abs(a.n), d |-> a.d]

\* Math.round: the nearest integer, a tie going toward +Infinity
JsRound(a) == (2 * a.n + a.d) \div (2 * a.d)

\* Math.round(x * 100) / 100, in hundredths
Round2(a) == JsRound(RatMul(a, Rat(100, 1)))

\* a score in hundredths as a fraction
Hundredths(h) == Rat(h, 100)

(***************************************************************************)
(* Tokenising                                                              *)
(***************************************************************************)
\* the elements of an array
Range(seq) == {seq[k] : k \in DOMAIN seq}

\* positions where a non-empty piece of s starts: a character that is not
\* a separator, at the start of s or right after a separator
PieceStarts(s, seps) ==
    {k \in DOMAIN s : s[k] \notin seps /\ (k = 1 \/ s[k - 1] \in seps)}

\* the piece that starts at position k runs up to the next separator
PieceAt(s, seps, k) ==
    LET last == CHOOSE e \in k..Len(s) :
                    /\ \A j \in k..e : s[j] \notin seps
                    /\ (e = Len(s) \/ s[e + 1] \in seps)
    IN  SubSeq(s, k, last)

\* String.prototype.split on a regular expression [seps]+ : the pieces
\* between maximal runs of separator characters, in order; a separator at
\* the start or at the end of s adds an empty piece there, and "" gives [""]
Split(s, seps) ==
    LET starts == PieceStarts(s, seps)
        nth(i) == CHOOSE k \in starts : Cardinality({j \in starts : j <= k}) = i
        pieces == [i \in 1..Cardinality(starts) |-> PieceAt(s, seps, nth(i))]
    IN  IF s = <<>> THEN << <<>> >>
        ELSE (IF s[1] \in seps THEN << <<>> >> ELSE <<>>)
               \o pieces
               \o (IF s[Len(s)] \in seps THEN << <<>> >> ELSE <<>>)

SentenceEnders == {".", "!", "?"}

\* s.toLowerCase().split(/\s+/).filter(word => word.length > minLength)
WordsLongerThan(s, minLength) ==
    SelectSeq(Split(ToLowerCase(s), WhitespaceChars), LAMBDA word : Len(word) > minLength)

RECURSIVE SumSeq(_)
SumSeq(seq) == IF seq = <<>> THEN 0 ELSE Head(seq) + SumSeq(Tail(seq))

RECURSIVE SumRat(_)
SumRat(seq) == IF seq = <<>> THEN Rat(0, 1) ELSE RatAdd(Head(seq), SumRat(Tail(seq)))

QuestionWords ==
    { <<"w","h","a","t">>, <<"h","o","w">>, <<"w","h","y">>,
      <<"w","h","e","n">>, <<"w","h","e","r","e">>, <<"w","h","o">>,
      <<"w","h","i","c","h">>, <<"e","x","p","l","a","i","n">>,
      <<"d","e","s","c","r","i","b","e">>, <<"t","e","l","l">> }

AnswerIndicators ==
    { <<"y","e","s">>, <<"n","o">>, <<"b","e","c","a","u","s","e">>,
      <<"t","h","e","r","e","f","o","r","e">>,
      <<"h","o","w","e","v","e","r">>,
      <<"s","p","e","c","i","f","i","c","a","l","l","y">>,
      <<"f","o","r"," ","e","x","a","m","p","l","e">> }

StopWords ==
    { <<"t","h","e">>, <<"a","n","d">>, <<"o","r">>, <<"b","u","t">>,
      <<"i","n">>, <<"o","n">>, <<"a","t">>, <<"t","o">>, <<"f","o","r">>,
      <<"o","f">>, <<"w","i","t","h">>, <<"b","y">>, <<"i","s">>,
      <<"a","r","e">>, <<"w","a","s">>, <<"w","e","r","e">>, <<"b","e">>,
      <<"b","e","e","n">>, <<"h","a","v","e">>, <<"h","a","s">>,
      <<"h","a","d">>, <<"d","o">>, <<"d","o","e","s">>, <<"d","i","d">>,
      <<"w","i","l","l">>, <<"w","o","u","l","d">>, <<"c","o","u","l","d">>,
      <<"s","h","o","u","l","d">>, <<"m","a","y">>, <<"m","i","g","h","t">>,
      <<"c","a","n">>, <<"t","h","i","s">>, <<"t","h","a","t">>,
      <<"t","h","e","s","e">>, <<"t","h","o","s","e">> }

(***************************************************************************)
(* QualityMetricsService: the score each calculate* method returns, in     *)
(* hundredths.  The explanation, calculation and factors fields of a       *)
(* MetricDetails are text and intermediate values derived from the same    *)
(* quantities and are left out.                                            *)
(***************************************************************************)
\* variant: tokens are compared without case folding
CalculateCoherence_CaseSensitive(content) ==
    LET words == SelectSeq(Split(content, WhitespaceChars), LAMBDA word : Len(word) > 0)
        uniqueWords == Range(words)
    IN  IF Len(words) = 0 THEN 0
        ELSE LET uniqueRatio == Rat(Cardinality(uniqueWords), Len(words))
                 score == RatMin(Rat(1, 1), RatMul(uniqueRatio, Rat(12, 10)))
             IN  Round2(score)

CalculateCoherence(content) ==
    LET words == WordsLongerThan(content, 0)
        uniqueWords == Range(words)
    IN  IF Len(words) = 0 THEN 0
        ELSE LET uniqueRatio == Rat(Cardinality(uniqueWords), Len(words))
                 score == RatMin(Rat(1, 1), RatMul(uniqueRatio, Rat(12, 10)))
             IN  Round2(score)

\* variant: the short-content factor is applied before the bonus
CalculateCompleteness_PenaltyFirst(content, prompt) ==
    LET promptWords == WordsLongerThan(prompt, 2)
        contentWords == WordsLongerThan(content, 2)
        hasQuestion == \E q \in QuestionWords : Includes(ToLowerCase(prompt), q)
        hasDirectAnswer == \E a \in AnswerIndicators : Includes(ToLowerCase(content), a)
        overlap == Cardinality({word \in Range(promptWords) : word \in Range(contentWords)})
        overlapRatio == IF Len(promptWords) > 0 THEN Rat(overlap, Len(promptWords))
                        ELSE Rat(0, 1)
        score0 == RatMin(Rat(1, 1), RatMul(overlapRatio, Rat(15, 10)))
        score1 == IF Len(contentWords) < 10 THEN RatMul(score0, Rat(7, 10)) ELSE score0
        score2 == IF hasQuestion /\ hasDirectAnswer
                  THEN RatMin(Rat(1, 1), RatAdd(score1, Rat(2, 10)))
                  ELSE score1
    IN  Round2(score2)

CalculateCompleteness(content, prompt) ==
    LET promptWords == WordsLongerThan(prompt, 2)
        contentWords == WordsLongerThan(content, 2)
        hasQuestion == \E q \in QuestionWords : Includes(ToLowerCase(prompt), q)
        hasDirectAnswer == \E a \in AnswerIndicators : Includes(ToLowerCase(content), a)
        promptSet == Range(promptWords)
        contentSet == Range(contentWords)
        overlap == Cardinality({word \in promptSet : word \in contentSet})
        overlapRatio == IF Len(promptWords) > 0 THEN Rat(overlap, Len(promptWords))
                        ELSE Rat(0, 1)
        score0 == RatMin(Rat(1, 1), RatMul(overlapRatio, Rat(15, 10)))
        score1 == IF hasQuestion /\ hasDirectAnswer
                  THEN RatMin(Rat(1, 1), RatAdd(score0, Rat(2, 10)))
                  ELSE score0
        score2 == IF Len(contentWords) < 10 THEN RatMul(score1, Rat(7, 10)) ELSE score1
    IN  Round2(score2)

\* variant: the words of a sentence are counted without trimming it
CalculateReadability_Untrimmed(content) ==
    LET sentences == SelectSeq(Split(content, SentenceEnders), LAMBDA s : Len(Trim(s)) > 0)
    IN  IF Len(sentences) = 0 THEN 0
        ELSE LET sentenceLengths == [k \in DOMAIN sentences |->
                                       Len(Split(sentences[k], WhitespaceChars))]
                 count == Len(sentenceLengths)
                 averageLength == Rat(SumSeq(sentenceLengths), count)
                 lengthScore == RatSub(Rat(1, 1),
                                       RatDiv(RatAbs(RatSub(averageLength, Rat(175, 10))),
                                              Rat(175, 10)))
                 squares == [k \in DOMAIN sentenceLengths |->
                               LET diff == RatSub(Rat(sentenceLengths[k], 1), averageLength)
                               IN  RatMul(diff, diff)]
                 variance == RatDiv(SumRat(squares), Rat(count, 1))
                 varietyScore == RatMin(Rat(1, 1), RatDiv(variance, Rat(50, 1)))
             IN  Round2(RatAdd(RatMul(lengthScore, Rat(7, 10)),
                               RatMul(varietyScore, Rat(3, 10))))

CalculateReadability(content) ==
    LET sentences == SelectSeq(Split(content, SentenceEnders), LAMBDA s : Len(Trim(s)) > 0)
    IN  IF Len(sentences) = 0 THEN 0
        ELSE LET sentenceLengths == [k \in DOMAIN sentences |->
                                       Len(Split(Trim(sentences[k]), WhitespaceChars))]
                 count == Len(sentenceLengths)
                 averageLength == Rat(SumSeq(sentenceLengths), count)
                 optimalLength == Rat(175, 10)
                 lengthScore == RatSub(Rat(1, 1),
                                       RatDiv(RatAbs(RatSub(averageLength, optimalLength)),
                                              optimalLength))
                 squares == [k \in DOMAIN sentenceLengths |->
                               LET diff == RatSub(Rat(sentenceLengths[k], 1), averageLength)
                               IN  RatMul(diff, diff)]
                 variance == RatDiv(SumRat(squares), Rat(count, 1))
                 varietyScore == RatMin(Rat(1, 1), RatDiv(variance, Rat(50, 1)))
                 score == RatAdd(RatMul(lengthScore, Rat(7, 10)),
                                 RatMul(varietyScore, Rat(3, 10)))
             IN  Round2(score)

\* variant: no penalty for an overlap ratio below 0.1
CalculateRelevance_NoPenalty(content, prompt) ==
    LET promptWords == WordsLongerThan(prompt, 2)
        contentWords == WordsLongerThan(content, 2)
        filteredPromptWords == SelectSeq(promptWords, LAMBDA word : word \notin StopWords)
        filteredContentWords == SelectSeq(contentWords, LAMBDA word : word \notin StopWords)
    IN  IF Len(filteredPromptWords) = 0 THEN 50
        ELSE LET overlap == {word \in Range(filteredPromptWords) :
                                word \in Range(filteredContentWords)}
                 overlapRatio == Rat(Cardinality(overlap), Len(filteredPromptWords))
             IN  Round2(RatMin(Rat(1, 1), RatMul(overlapRatio, Rat(13, 10))))

CalculateRelevance(content, prompt) ==
    LET promptWords == WordsLongerThan(prompt, 2)
        contentWords == WordsLongerThan(content, 2)
        filteredPromptWords == SelectSeq(promptWords, LAMBDA word : word \notin StopWords)
        filteredContentWords == SelectSeq(contentWords, LAMBDA word : word \notin StopWords)
    IN  IF Len(filteredPromptWords) = 0 THEN 50
        ELSE LET promptSet == Range(filteredPromptWords)
                 contentSet == Range(filteredContentWords)
                 overlap == {word \in promptSet : word \in contentSet}
                 overlapRatio == Rat(Cardinality(overlap), Len(filteredPromptWords))
                 topicConsistency == RatMin(Rat(1, 1), RatMul(overlapRatio, Rat(13, 10)))
                 score == IF RatLess(overlapRatio, Rat(1, 10))
                          THEN RatMul(topicConsistency, Rat(5, 10))
                          ELSE topicConsistency
             IN  Round2(score)

\* the value of 0 / 0 and of every expression computed from it; the model
\* keeps it as a number no score can equal
NaN == 0 - 1000000

IsNaN(x) == x = NaN

\* variant: the weights of completeness and readability are exchanged
CalculateOverallScore_WeightsExchanged(metrics) ==
    IF \E x \in {metrics.coherence, metrics.completeness,
                  metrics.readability, metrics.relevance} : IsNaN(x)
    THEN NaN
    ELSE LET weightedSum ==
               RatAdd(RatAdd(RatMul(Hundredths(metrics.coherence), Rat(25, 100)),
                             RatMul(Hundredths(metrics.completeness), Rat(20, 100))),
                      RatAdd(RatMul(Hundredths(metrics.readability), Rat(30, 100)),
                             RatMul(Hundredths(metrics.relevance), Rat(25, 100))))
         IN  Round2(weightedSum)

CalculateOverallScore(metrics) ==
    IF \E x \in {metrics.coherence, metrics.completeness,
                  metrics.readability, metrics.relevance} : IsNaN(x)
    THEN NaN
    ELSE LET weightedSum ==
               RatAdd(RatAdd(RatMul(Hundredths(metrics.coherence), Rat(25, 100)),
                             RatMul(Hundredths(metrics.completeness), Rat(30, 100))),
                      RatAdd(RatMul(Hundredths(metrics.readability), Rat(20, 100)),
                             RatMul(Hundredths(metrics.relevance), Rat(25, 100))))
         IN  Round2(weightedSum)

CalculateAllMetrics(content, prompt) ==
    LET scores == [coherence |-> CalculateCoherence(content),
                   completeness |-> CalculateCompleteness(content, prompt),
                   readability |-> CalculateReadability(content),
                   relevance |-> CalculateRelevance(content, prompt)]
    IN  [metrics |-> [coherence |-> scores.coherence,
                      completeness |-> scores.completeness,
                      readability |-> scores.readability,
                      relevance |-> scores.relevance,
                      overallScore |-> CalculateOverallScore(scores)],
         details |-> scores]

(***************************************************************************)
(* Scoring one response: calculateAllMetrics applied to a content and a    *)
(* prompt.  Contents are up to MaxContentWords pieces joined by single     *)
(* spaces, and single sentences of a given number of words.                *)
(***************************************************************************)
MaxContentWords == 2

RECURSIVE JoinWords(_)
JoinWords(words) ==
    IF words = <<>> THEN <<>>
    ELSE IF Len(words) = 1 THEN words[1]
    ELSE words[1] \o <<" ">> \o JoinWords(Tail(words))

ContentPieces ==
    { <<"a">>, <<"A">>, <<"c","a","t">>, <<"C","a","t",".">>, <<"t","h","e">>,
      <<"N","o","!">>, <<"\n">> }

SentenceLengths == {4, 17, 35, 36}

\* contents of ten or more tokens longer than two characters, without and
\* with an answer indicator
LongContents ==
    { JoinWords([k \in 1..10 |-> <<"c","a","t">>]),
      JoinWords([k \in 1..10 |-> IF k = 1 THEN <<"B","e","c","a","u","s","e">>
                                           ELSE <<"c","a","t">>]),
      JoinWords([k \in 1..12 |-> IF k % 2 = 0 THEN <<"t","h","e">>
                                           ELSE <<"d","o","g",".">>]),
      <<"C","a","t","."," ">> \o [k \in 1..33 |-> IF k % 2 = 1 THEN "a" ELSE " "] }

ScoreContents ==
    {JoinWords(pieces) : pieces \in SeqsUpTo(ContentPieces, MaxContentWords)}
      \cup {[k \in 1..(2 * n - 1) |-> IF k % 2 = 1 THEN "a" ELSE " "] : n \in SentenceLengths}
      \cup LongContents

ScorePrompts ==
    { <<>>, <<"t","h","e">>, <<"c","a","t">>,
      <<"W","h","a","t"," ","i","s"," ","a"," ","c","a","t","?">>,
      <<"c","a","t"," ","c","a","t">>,
      <<"c","a","t"," ","t","h","e"," ","d","o","g">>,
      <<"E","x","p","l","a","i","n"," ","w","h","y"," ","t","h","e"," ","c","a","t",
        " ","a","n","d"," ","t","h","e"," ","d","o","g">>,
      JoinWords([k \in 1..11 |-> <<"c","a","t">>]) }

InitScoring ==
    /\ isMockMode = FALSE
    /\ run = [r \in RunIds |-> IdleRun]
    /\ http = NoRequest
    /\ db = EmptyDb
    /\ cron = NewCronService
    /\ calc \in [fn : {"calculateAllMetrics"}, content : ScoreContents,
                 prompt : ScorePrompts, result : {<<>>}]

ScoreResponse ==
    /\ calc.fn = "calculateAllMetrics"
    /\ calc.result = <<>>
    /\ calc' = [calc EXCEPT !.result = <<CalculateAllMetrics(calc.content, calc.prompt)>>]
    /\ UNCHANGED <<isMockMode, run, http, db, cron>>

NextScoring == ScoreResponse

SpecScoring == InitScoring /\ [][NextScoring]_vars

\* calculateAllMetrics has returned
Scored == calc.fn = "calculateAllMetrics" /\ calc.result # <<>>

\* C12: for every content and prompt, each of the four scores and the
\* overall score that calculateAllMetrics returns lies in [0, 1]
C12_ScoresWithinUnitInterval ==
    Scored =>
        LET metrics == calc.result[1].metrics
        IN  /\ metrics.coherence \in 0..100
            /\ metrics.completeness \in 0..100
            /\ metrics.readability \in 0..100
            /\ metrics.relevance \in 0..100
            /\ metrics.overallScore \in 0..100

\* the whitespace-separated tokens of s, case-folded, collected by a scan
\* from left to right: cur is the token being read
RECURSIVE ScanTokens(_, _, _)
ScanTokens(s, k, cur) ==
    IF k > Len(s) THEN (IF cur = <<>> THEN <<>> ELSE <<cur>>)
    ELSE IF s[k] \in WhitespaceChars
    THEN (IF cur = <<>> THEN <<>> ELSE <<cur>>) \o ScanTokens(s, k + 1, <<>>)
    ELSE ScanTokens(s, k + 1, Append(cur, ToLowerChar(s[k])))

LongTokens(s) == SelectSeq(ScanTokens(s, 1, <<>>), LAMBDA word : Len(word) > 2)

\* h is x / d rounded to hundredths, halves upward (d > 0)
IsRound2(h, x, d) == 2 * d * h <= 200 * x + d /\ 200 * x + d < 2 * d * (h + 1)

MeaningfulTokens(s) == SelectSeq(LongTokens(s), LAMBDA word : word \notin StopWords)

RECURSIVE ScanSentences(_, _, _)
ScanSentences(s, k, cur) ==
    LET piece == IF \E j \in DOMAIN cur : cur[j] \notin WhitespaceChars
                 THEN <<cur>> ELSE <<>>
    IN  IF k > Len(s) THEN piece
        ELSE IF s[k] \in SentenceEnders THEN piece \o ScanSentences(s, k + 1, <<>>)
        ELSE ScanSentences(s, k + 1, Append(cur, s[k]))

SubScores == {0, 25, 50, 77, 100}

InitOverall ==
    /\ isMockMode = FALSE
    /\ run = [r \in RunIds |-> IdleRun]
    /\ http = NoRequest
    /\ db = EmptyDb
    /\ cron = NewCronService
    /\ calc \in [fn : {"calculateOverallScore"},
                 metrics : [coherence : SubScores, completeness : SubScores,
                            readability : SubScores, relevance : SubScores],
                 result : {<<>>}]

ScoreOverall ==
    /\ calc.fn = "calculateOverallScore"
    /\ calc.result = <<>>
    /\ calc' = [calc EXCEPT !.result = <<CalculateOverallScore(calc.metrics)>>]
    /\ UNCHANGED <<isMockMode, run, http, db, cron>>

NextOverall == ScoreOverall

SpecOverall == InitOverall /\ [][NextOverall]_vars

\* C13: the overall score is 0.25*coherence + 0.30*completeness
\* + 0.20*readability + 0.25*relevance rounded to two decimals (the nearest
\* hundredth, a tie going up), and four equal sub-scores s give s back
C13_OverallIsRoundedWeightedSum ==
    (calc.fn = "calculateOverallScore" /\ calc.result # <<>>) =>
        LET m == calc.metrics
            h == calc.result[1]
            \* the weighted sum in ten-thousandths
            w == 25 * m.coherence + 30 * m.completeness
                   + 20 * m.readability + 25 * m.relevance
        IN  /\ 100 * h - 50 <= w
            /\ w < 100 * h + 50
            /\ (m.coherence = m.completeness /\ m.completeness = m.readability
                  /\ m.readability = m.relevance) => h = m.coherence

\* four sub-scores of 0.77 have been scored 0.77
C13_Witness ==
    /\ calc.fn = "calculateOverallScore"
    /\ calc.result # <<>>
    /\ calc.metrics = [coherence |-> 77, completeness |-> 77,
                       readability |-> 77, relevance |-> 77]
    /\ calc.result[1] = 77

(***************************************************************************)
(* The experiment summary of POST /api/generate: the totals the result     *)
(* loop accumulates over the responses it produced, and the averages       *)
(* computed from them.  responses is the list of the responses' metrics.   *)
(***************************************************************************)
\* Math.round((total / responseCount) * 100) / 100; 0 / 0 is NaN
AverageOf(total, responseCount) ==
    IF responseCount = 0 THEN NaN
    ELSE Round2(RatDiv(Hundredths(total), Rat(responseCount, 1)))

\* variant: the overall score of the summary is the mean of the responses'
\* overall scores
AverageMetrics_MeanOfOverall(responses) ==
    LET responseCount == Len(responses)
        totalCoherence == SumSeq([k \in DOMAIN responses |-> responses[k].coherence])
        totalCompleteness == SumSeq([k \in DOMAIN responses |-> responses[k].completeness])
        totalReadability == SumSeq([k \in DOMAIN responses |-> responses[k].readability])
        totalRelevance == SumSeq([k \in DOMAIN responses |-> responses[k].relevance])
        totalOverall == SumSeq([k \in DOMAIN responses |-> responses[k].overallScore])
    IN  [coherence |-> AverageOf(totalCoherence, responseCount),
         completeness |-> AverageOf(totalCompleteness, responseCount),
         readability |-> AverageOf(totalReadability, responseCount),
         relevance |-> AverageOf(totalRelevance, responseCount),
         overallScore |-> AverageOf(totalOverall, responseCount)]

AverageMetrics(responses) ==
    LET responseCount == Len(responses)
        totalCoherence == SumSeq([k \in DOMAIN responses |-> responses[k].coherence])
        totalCompleteness == SumSeq([k \in DOMAIN responses |-> responses[k].completeness])
        totalReadability == SumSeq([k \in DOMAIN responses |-> responses[k].readability])
        totalRelevance == SumSeq([k \in DOMAIN responses |-> responses[k].relevance])
        averageMetrics == [coherence |-> AverageOf(totalCoherence, responseCount),
                           completeness |-> AverageOf(totalCompleteness, responseCount),
                           readability |-> AverageOf(totalReadability, responseCount),
                           relevance |-> AverageOf(totalRelevance, responseCount)]
    IN  [coherence |-> averageMetrics.coherence,
         completeness |-> averageMetrics.completeness,
         readability |-> averageMetrics.readability,
         relevance |-> averageMetrics.relevance,
         overallScore |-> CalculateOverallScore(averageMetrics)]

MaxResponses == 2

SummaryContents ==
    { <<>>, <<"a"," ","A">>, <<"C","a","t",".">>, <<"t","h","e"," ","c","a","t">>,
      <<"N","o","!"," ","a">>, <<"c","a","t"," ","C","a","t",".">> }

InitSummary ==
    /\ isMockMode = FALSE
    /\ run = [r \in RunIds |-> IdleRun]
    /\ http = NoRequest
    /\ db = EmptyDb
    /\ cron = NewCronService
    /\ calc \in [fn : {"averageMetrics"}, prompt : ScorePrompts,
                 contents : SeqsUpTo(SummaryContents, MaxResponses),
                 responses : {<<>>}, result : {<<>>}]

Summarise ==
    /\ calc.fn = "averageMetrics"
    /\ calc.result = <<>>
    /\ LET responses == [k \in DOMAIN calc.contents |->
                           CalculateAllMetrics(calc.contents[k], calc.prompt).metrics]
       IN  calc' = [calc EXCEPT !.responses = responses,
                                !.result = <<AverageMetrics(responses)>>]
    /\ UNCHANGED <<isMockMode, run, http, db, cron>>

NextSummary == Summarise

SpecSummary == InitSummary /\ [][NextSummary]_vars

Summarised == calc.fn = "averageMetrics" /\ calc.result # <<>>

\* h is the hundredth nearest to total / count, a tie going up
IsRoundedMean(h, total, count) ==
    /\ 2 * count * h <= 2 * total + count
    /\ 2 * total + count < 2 * count * (h + 1)

\* C14: over at least one produced response, each averaged sub-score is the
\* mean of the responses' sub-scores rounded to two decimals, and the
\* summary's overall score is the weighted formula applied to the averaged
\* sub-scores
C14_SummaryAveragesThenWeighs ==
    (Summarised /\ calc.responses # <<>>) =>
        LET rs == calc.responses
            avg == calc.result[1]
            n == Len(rs)
            w == 25 * avg.coherence + 30 * avg.completeness
                   + 20 * avg.readability + 25 * avg.relevance
        IN  /\ IsRoundedMean(avg.coherence, SumSeq([k \in DOMAIN rs |-> rs[k].coherence]), n)
            /\ IsRoundedMean(avg.completeness, SumSeq([k \in DOMAIN rs |-> rs[k].completeness]), n)
            /\ IsRoundedMean(avg.readability, SumSeq([k \in DOMAIN rs |-> rs[k].readability]), n)
            /\ IsRoundedMean(avg.relevance, SumSeq([k \in DOMAIN rs |-> rs[k].relevance]), n)
            /\ 100 * avg.overallScore - 50 <= w
            /\ w < 100 * avg.overallScore + 50

\* two responses have been summarised, and the summary's overall score is
\* not the rounded mean of their overall scores
C14_Witness ==
    /\ Summarised
    /\ Len(calc.responses) = 2
    /\ ~IsRoundedMean(calc.result[1].overallScore,
                      calc.responses[1].overallScore + calc.responses[2].overallScore, 2)

\* C15: with zero responses the averaged metrics are a distinct no-data
\* outcome: none of them is NaN and none of them is 0
C15_EmptySummaryIsNoData ==
    (Summarised /\ calc.responses = <<>>) =>
        LET avg == calc.result[1]
        IN  \A x \in {avg.coherence, avg.completeness, avg.readability,
                      avg.relevance, avg.overallScore} : ~IsNaN(x) /\ x # 0

(***************************************************************************)
(* The parameter sampler: generateParameterCombinations and randomInRange. *)
(* The bounds of a range and the values of Math.random() are fractions;    *)
(* randoms is the sequence of values Math.random() returns, read in order  *)
(* and cyclically, three per tuple.  The sampled temperature and top_p are *)
(* in hundredths, as everywhere else.                                      *)
(***************************************************************************)
MaxRuns == 20

\* Math.floor
JsFloor(a) == a.n \div a.d

\* variant: the lower bound is not subtracted from the width
RandomInRange_FullWidth(min, max, random) == RatAdd(RatMul(random, max), min)

\* Math.random() * (max - min) + min
RandomInRange(min, max, random) == RatAdd(RatMul(random, RatSub(max, min)), min)

\* the value of the k-th call of Math.random(), k counted from 0
RandomAt(randoms, k) == randoms[(k % Len(randoms)) + 1]

\* one pass of the loop body, for index i
SampledTuple(range, randoms, i) ==
    LET temperature == RandomInRange(range.temperature.min, range.temperature.max,
                                     RandomAt(randoms, 3 * i))
        topP == RandomInRange(range.top_p.min, range.top_p.max,
                              RandomAt(randoms, 3 * i + 1))
        maxTokens == JsFloor(RandomInRange(range.max_tokens.min, range.max_tokens.max,
                                           RandomAt(randoms, 3 * i + 2)))
    IN  [temperature |-> Round2(temperature),
         top_p |-> Round2(topP),
         max_tokens |-> maxTokens,
         model |-> "gemini-2.5-flash"]

\* for (let i = ...; i < count; i++) combinations.push(...)
RECURSIVE CombinationsFrom(_, _, _, _)
CombinationsFrom(range, count, randoms, i) ==
    IF i < count
    THEN <<SampledTuple(range, randoms, i)>> \o CombinationsFrom(range, count, randoms, i + 1)
    ELSE <<>>

\* variant: the loop makes one pass more
GenerateParameterCombinations_OnePassMore(range, count, randoms) ==
    CombinationsFrom(range, count + 1, randoms, 0)

GenerateParameterCombinations(range, count, randoms) ==
    CombinationsFrom(range, count, randoms, 0)

MaxRandoms == 3

RandomSamples == {Rat(0, 1), Rat(1, 2), Rat(999, 1000)}

RandomStreams == SeqsUpTo(RandomSamples, MaxRandoms) \ {<<>>}

Interval(min, max) == [min |-> min, max |-> max]

\* ranges with min <= max: bounds with one, two and three decimals, and a
\* range of a single point
DecimalRanges ==
    { Interval(Rat(1, 10), Rat(9, 10)), Interval(Rat(101, 1000), Rat(104, 1000)),
      Interval(Rat(5, 10), Rat(5, 10)), Interval(Rat(25, 100), Rat(899, 1000)) }

TopPRanges == { Interval(Rat(8, 10), Rat(1, 1)), Interval(Rat(905, 1000), Rat(906, 1000)) }

TokenRanges == { Interval(Rat(100, 1), Rat(100, 1)), Interval(Rat(50, 1), Rat(1000, 1)) }

ParameterRanges ==
    [temperature : DecimalRanges, top_p : TopPRanges, max_tokens : TokenRanges]

\* the counts that pass the route's validation
SampleCounts == {0 - 1} \cup 1..MaxRuns

InitSampler ==
    /\ isMockMode = FALSE
    /\ run = [r \in RunIds |-> IdleRun]
    /\ http = NoRequest
    /\ db = EmptyDb
    /\ cron = NewCronService
    /\ calc \in [fn : {"generateParameterCombinations"}, range : ParameterRanges,
                 count : SampleCounts, randoms : RandomStreams, result : {<<>>}]

SampleCombinations ==
    /\ calc.fn = "generateParameterCombinations"
    /\ calc.result = <<>>
    /\ calc' = [calc EXCEPT !.result =
                  <<GenerateParameterCombinations(calc.range, calc.count, calc.randoms)>>]
    /\ UNCHANGED <<isMockMode, run, http, db, cron>>

NextSampler == SampleCombinations

SpecSampler == InitSampler /\ [][NextSampler]_vars

Sampled == calc.fn = "generateParameterCombinations" /\ calc.result # <<>>

\* the value of h hundredths lies in the interval
InInterval(h, interval) ==
    /\ ~RatLess(Hundredths(h), interval.min)
    /\ ~RatLess(interval.max, Hundredths(h))

\* the value of h hundredths lies within 0.005 of the interval
NearInterval(h, interval) ==
    /\ ~RatLess(Hundredths(h), RatSub(interval.min, Rat(5, 1000)))
    /\ ~RatLess(RatAdd(interval.max, Rat(5, 1000)), Hundredths(h))

\* both bounds have at most two decimals
TwoDecimalBounds(interval) ==
    /\ (100 * interval.min.n) % interval.min.d = 0
    /\ (100 * interval.max.n) % interval.max.d = 0

\* C16 as stated: every sampled temperature and top_p lies inside [min, max]
\* of its range, also for ranges whose bounds have more than two decimals
C16_SampledInsideRange ==
    Sampled =>
        \A k \in DOMAIN calc.result[1] :
            /\ InInterval(calc.result[1][k].temperature, calc.range.temperature)
            /\ InInterval(calc.result[1][k].top_p, calc.range.top_p)

\* C16 amended: every sampled temperature and top_p (a number with two
\* decimals) lies within 0.005 of [min, max] of its range, and inside
\* [min, max] when both bounds have at most two decimals
C16_SampledNearRange ==
    Sampled =>
        \A k \in DOMAIN calc.result[1] :
            LET tuple == calc.result[1][k]
            IN  /\ NearInterval(tuple.temperature, calc.range.temperature)
                /\ NearInterval(tuple.top_p, calc.range.top_p)
                /\ TwoDecimalBounds(calc.range.temperature) =>
                       InInterval(tuple.temperature, calc.range.temperature)
                /\ TwoDecimalBounds(calc.range.top_p) =>
                       InInterval(tuple.top_p, calc.range.top_p)

\* a temperature of 0.10 was sampled from the range [0.101, 0.104]
C16_Witness ==
    /\ Sampled
    /\ calc.range.temperature = Interval(Rat(101, 1000), Rat(104, 1000))
    /\ \E k \in DOMAIN calc.result[1] : calc.result[1][k].temperature = 10

\* C17: for every count in 1..20 the sampler returns exactly count tuples,
\* and every max_tokens in them is an integer inside [min, max] of the
\* output-length range
C17_CountTuplesWithTokensInRange ==
    (Sampled /\ calc.count \in 1..MaxRuns) =>
        /\ Len(calc.result[1]) = calc.count
        /\ \A k \in DOMAIN calc.result[1] :
              LET v == calc.result[1][k].max_tokens
              IN  /\ v \in Int
                  /\ ~RatLess(Rat(v, 1), calc.range.max_tokens.min)
                  /\ ~RatLess(calc.range.max_tokens.max, Rat(v, 1))

\* twenty tuples were sampled from the output-length range [50, 1000], the
\* first with 50 and another with 999 tokens
C17_Witness ==
    /\ Sampled
    /\ calc.count = MaxRuns
    /\ Len(calc.result[1]) = MaxRuns
    /\ calc.result[1][1].max_tokens = 50
    /\ \E k \in DOMAIN calc.result[1] : calc.result[1][k].max_tokens = 999

(***************************************************************************)
(* The mock generator on its own: generateMockResponse applied to a prompt *)
(* and a parameter tuple.  Prompts are up to MaxPromptWords words joined   *)
(* by single spaces.                                                       *)
(***************************************************************************)
MaxPromptWords == 2

PromptWords ==
    { <<"S","t","o","r","y">>, <<"c","r","e","a","t","i","v","e">>,
      <<"E","x","p","l","a","i","n">>, <<"s","h","o","w">>, <<"w","h","a","t">>,
      <<"i","s">>, <<"q","u","e","s","t","i","o","n">>, <<"o","k","?">>,
      <<"c","o","d","e">>, <<"F","u","n","c","t","i","o","n">>,
      <<"h","e","l","l","o">> }

MockPrompts == {JoinWords(words) : words \in SeqsUpTo(PromptWords, MaxPromptWords)}

MockTemperatures == {0, 20, 30, 35, 40, 45, 50, 55, 60, 65, 70, 71, 80, 100}

MockParams == [model : {DefaultModel}, temperature : MockTemperatures,
               top_p : {90}, max_tokens : {256}]

InitMock ==
    /\ isMockMode = TRUE
    /\ run = [r \in RunIds |-> IdleRun]
    /\ http = NoRequest
    /\ db = EmptyDb
    /\ cron = NewCronService
    /\ calc \in [fn : {"generateMockResponse"}, prompt : MockPrompts,
                 parameters : MockParams, result : {<<>>}]

MockRespond ==
    /\ calc.fn = "generateMockResponse"
    /\ calc.result = <<>>
    /\ \E content \in GenerateMockResponse(calc.prompt, calc.parameters) :
          calc' = [calc EXCEPT !.result = <<content>>]
    /\ UNCHANGED <<isMockMode, run, http, db, cron>>

NextMock == MockRespond

SpecMock == InitMock /\ [][NextMock]_vars

MockResponded == calc.fn = "generateMockResponse" /\ calc.result # <<>>

\* the categories with keywords, highest priority first, and their keywords
KeywordCategories == <<"creative", "explanation", "qa", "code">>

CategoryKeywords(category) ==
    CASE category = "creative" -> {KwStory, KwCreative, KwWrite}
      [] category = "explanation" -> {KwExplain, KwHow, KwWhatIs}
      [] category = "qa" -> {KwQuestionMark, KwQuestion}
      [] category = "code" -> {KwCode, KwProgram, KwFunction}

\* ranks of the categories one of whose keywords occurs in the prompt
MatchedRanks(prompt) ==
    {k \in DOMAIN KeywordCategories :
        \E kw \in CategoryKeywords(KeywordCategories[k]) :
            Includes(ToLowerCase(prompt), kw)}

\* C18: the mock response comes from the highest-priority category one of
\* whose keywords occurs in the prompt (creative, then explanatory, then
\* question, then code), and from the general category when none occurs
C18_FirstMatchingCategory ==
    MockResponded =>
        LET matched == MatchedRanks(calc.prompt)
        IN  /\ matched = {} => calc.result[1].category = "general"
            /\ matched # {} =>
                 \E k \in matched :
                    /\ \A j \in matched : k <= j
                    /\ calc.result[1].category = KeywordCategories[k]

\* the prompt "code Story", with a code keyword and a creative keyword, was
\* answered by the creative generator
C18_Witness ==
    /\ MockResponded
    /\ calc.prompt = <<"c","o","d","e"," ","S","t","o","r","y">>
    /\ MatchedRanks(calc.prompt) = {1, 4}
    /\ calc.result[1].category = "creative"

\* the temperature bands of the claim: above 0.7, 0.4 to 0.7, below 0.4
ClaimedBand(temperature) ==
    IF temperature > 70 THEN "high"
    ELSE IF temperature >= 40 THEN "moderate"
    ELSE "low"

\* C19 as stated: in every category two temperatures get the same wording
\* exactly when they lie in the same band: above 0.7, 0.4 to 0.7, below 0.4
C19_SameBandsInEveryCategory ==
    MockResponded =>
        \A t \in MockTemperatures :
            (ClaimedBand(t) = ClaimedBand(calc.parameters.temperature))
              <=> (MockLevel(calc.result[1].category, t) = calc.result[1].level)

\* the bands of each category: the temperatures at or below which (creative,
\* code) or below which (the others) the next lower wording begins
CategoryBand(category, temperature) ==
    CASE category = "creative" ->
           IF temperature > 70 THEN 3 ELSE IF temperature > 40 THEN 2 ELSE 1
      [] category = "explanation" -> IF temperature >= 50 THEN 2 ELSE 1
      [] category = "qa" -> IF temperature >= 40 THEN 2 ELSE 1
      [] category = "code" -> IF temperature > 60 THEN 2 ELSE 1
      [] category = "general" ->
           IF temperature > 70 THEN 3 ELSE IF temperature >= 30 THEN 2 ELSE 1

\* C19 amended: the bands differ by category.  Creative writing has three
\* wordings (above 0.7; above 0.4 up to 0.7; 0.4 and below), general has
\* three (above 0.7; 0.3 to 0.7; below 0.3), and the others have two:
\* explanation splits at 0.5, question at 0.4 (each: below, or at and
\* above), code at 0.6 (above, or at and below).  Within a category two
\* temperatures get the same wording exactly when they lie in the same band
C19_BandsPerCategory ==
    MockResponded =>
        \A t \in MockTemperatures :
            (CategoryBand(calc.result[1].category, t)
               = CategoryBand(calc.result[1].category, calc.parameters.temperature))
              <=> (MockLevel(calc.result[1].category, t) = calc.result[1].level)

\* an explanation at temperature 0.45 was worded "precise and technical",
\* the wording it shares with temperature 0.2 and not with 0.6
C19_Witness ==
    /\ MockResponded
    /\ calc.result[1].category = "explanation"
    /\ calc.parameters.temperature = 45
    /\ calc.result[1].level = "precise and technical"

(***************************************************************************)
(* The text of a mock content: the template paragraphs of the five         *)
(* generators, each the text before and the text after the interpolated    *)
(* wording.                                                                *)
(***************************************************************************)
CreativeTemplates ==
    <<
      [prefix |->
         <<"H","e","r","e","'","s"," ","a"," ">>,
       suffix |->
         <<" ","s","t","o","r","y"," ","t","h","a","t"," ","c","a","p","t",
           "u","r","e","s"," ","t","h","e"," ","e","s","s","e","n","c","e",
           " ","o","f"," ","y","o","u","r"," ","p","r","o","m","p","t",".",
           " ","T","h","e"," ","n","a","r","r","a","t","i","v","e"," ","u",
           "n","f","o","l","d","s"," ","w","i","t","h"," ","c","a","r","e",
           "f","u","l"," ","a","t","t","e","n","t","i","o","n"," ","t","o",
           " ","c","h","a","r","a","c","t","e","r"," ","d","e","v","e","l",
           "o","p","m","e","n","t"," ","a","n","d"," ","p","l","o","t"," ",
           "p","r","o","g","r","e","s","s","i","o","n",","," ","c","r","e",
           "a","t","i","n","g"," ","a","n"," ","e","n","g","a","g","i","n",
           "g"," ","e","x","p","e","r","i","e","n","c","e"," ","t","h","a",
           "t"," ","d","r","a","w","s"," ","r","e","a","d","e","r","s"," ",
           "i","n","t","o"," ","t","h","e"," ","w","o","r","l","d"," ","y",
           "o","u","'","v","e"," ","e","n","v","i","s","i","o","n","e","d",".">>],
      [prefix |->
         <<"T","h","i","s"," ","c","r","e","a","t","i","v","e"," ","p","i",
           "e","c","e"," ","d","e","m","o","n","s","t","r","a","t","e","s",
           " ","t","h","e"," ","p","o","w","e","r"," ","o","f"," ","s","t",
           "o","r","y","t","e","l","l","i","n","g"," ","t","h","r","o","u",
           "g","h"," ">>,
       suffix |->
         <<" ","n","a","r","r","a","t","i","v","e"," ","t","e","c","h","n",
           "i","q","u","e","s","."," ","T","h","e"," ","c","h","a","r","a",
           "c","t","e","r","s"," ","c","o","m","e"," ","t","o"," ","l","i",
           "f","e"," ","t","h","r","o","u","g","h"," ","d","i","a","l","o",
           "g","u","e"," ","a","n","d"," ","a","c","t","i","o","n",","," ",
           "w","h","i","l","e"," ","t","h","e"," ","p","l","o","t"," ","d",
           "e","v","e","l","o","p","s"," ","n","a","t","u","r","a","l","l",
           "y"," ","f","r","o","m"," ","t","h","e"," ","i","n","i","t","i",
           "a","l"," ","p","r","e","m","i","s","e","."," ","E","a","c","h",
           " ","s","c","e","n","e"," ","b","u","i","l","d","s"," ","u","p",
           "o","n"," ","t","h","e"," ","p","r","e","v","i","o","u","s"," ",
           "o","n","e",","," ","c","r","e","a","t","i","n","g"," ","a"," ",
           "c","o","h","e","s","i","v","e"," ","a","n","d"," ","c","o","m",
           "p","e","l","l","i","n","g"," ","s","t","o","r","y",".">>],
      [prefix |->
         <<"T","h","e"," ","s","t","o","r","y"," ","b","e","g","i","n","s",
           " ","w","i","t","h"," ","a","n"," ","i","n","t","r","i","g","u",
           "i","n","g"," ","p","r","e","m","i","s","e"," ","t","h","a","t",
           " ","i","m","m","e","d","i","a","t","e","l","y"," ","c","a","p",
           "t","u","r","e","s"," ","t","h","e"," ","r","e","a","d","e","r",
           "'","s"," ","a","t","t","e","n","t","i","o","n","."," ","T","h",
           "r","o","u","g","h"," ">>,
       suffix |->
         <<" ","s","t","o","r","y","t","e","l","l","i","n","g",","," ","t",
           "h","e"," ","n","a","r","r","a","t","i","v","e"," ","e","x","p",
           "l","o","r","e","s"," ","t","h","e","m","e","s"," ","o","f"," ",
           "g","r","o","w","t","h",","," ","d","i","s","c","o","v","e","r",
           "y",","," ","a","n","d"," ","h","u","m","a","n"," ","c","o","n",
           "n","e","c","t","i","o","n","."," ","T","h","e"," ","w","r","i",
           "t","i","n","g"," ","s","t","y","l","e"," ","a","d","a","p","t",
           "s"," ","t","o"," ","t","h","e"," ","c","r","e","a","t","i","v",
           "e"," ","p","a","r","a","m","e","t","e","r","s",","," ","r","e",
           "s","u","l","t","i","n","g"," ","i","n"," ","a"," ","u","n","i",
           "q","u","e"," ","v","o","i","c","e"," ","t","h","a","t"," ","s",
           "e","r","v","e","s"," ","t","h","e"," ","s","t","o","r","y"," ",
           "w","e","l","l",".">>],
      [prefix |->
         <<"I","n"," ","t","h","i","s"," ","c","r","e","a","t","i","v","e",
           " ","e","x","p","l","o","r","a","t","i","o","n",","," ","t","h",
           "e"," ","a","u","t","h","o","r"," ","d","e","m","o","n","s","t",
           "r","a","t","e","s"," ","m","a","s","t","e","r","y"," ","o","f",
           " ","n","a","r","r","a","t","i","v","e"," ","t","e","c","h","n",
           "i","q","u","e","s"," ","w","h","i","l","e"," ","m","a","i","n",
           "t","a","i","n","i","n","g"," ","f","o","c","u","s"," ","o","n",
           " ","t","h","e"," ","c","o","r","e"," ","s","t","o","r","y"," ",
           "e","l","e","m","e","n","t","s","."," ","T","h","e"," ">>,
       suffix |->
         <<" ","a","p","p","r","o","a","c","h"," ","e","n","s","u","r","e",
           "s"," ","t","h","a","t"," ","r","e","a","d","e","r","s"," ","r",
           "e","m","a","i","n"," ","e","n","g","a","g","e","d"," ","t","h",
           "r","o","u","g","h","o","u","t",","," ","w","i","t","h"," ","e",
           "a","c","h"," ","p","a","r","a","g","r","a","p","h"," ","c","o",
           "n","t","r","i","b","u","t","i","n","g"," ","t","o"," ","t","h",
           "e"," ","o","v","e","r","a","l","l"," ","i","m","p","a","c","t",
           " ","o","f"," ","t","h","e"," ","p","i","e","c","e",".">>],
      [prefix |->
         <<"T","h","i","s"," ","s","t","o","r","y"," ","s","h","o","w","c",
           "a","s","e","s"," ","t","h","e"," ","a","r","t"," ","o","f"," ",
           "c","r","e","a","t","i","v","e"," ","w","r","i","t","i","n","g",
           " ","t","h","r","o","u","g","h"," ","c","a","r","e","f","u","l",
           " ","a","t","t","e","n","t","i","o","n"," ","t","o"," ","d","e",
           "t","a","i","l"," ","a","n","d"," ","c","h","a","r","a","c","t",
           "e","r"," ","d","e","v","e","l","o","p","m","e","n","t","."," ",
           "T","h","e"," ">>,
       suffix |->
         <<" ","s","t","y","l","e"," ","c","r","e","a","t","e","s"," ","a",
           "n"," ","i","m","m","e","r","s","i","v","e"," ","e","x","p","e",
           "r","i","e","n","c","e"," ","t","h","a","t"," ","a","l","l","o",
           "w","s"," ","r","e","a","d","e","r","s"," ","t","o"," ","c","o",
           "n","n","e","c","t"," ","w","i","t","h"," ","t","h","e"," ","c",
           "h","a","r","a","c","t","e","r","s"," ","a","n","d"," ","b","e",
           "c","o","m","e"," ","i","n","v","e","s","t","e","d"," ","i","n",
           " ","t","h","e","i","r"," ","j","o","u","r","n","e","y",".">>]
    >>

ExplanationTemplates ==
    <<
      [prefix |->
         <<"L","e","t"," ","m","e"," ","e","x","p","l","a","i","n"," ","t",
           "h","i","s"," ","c","o","n","c","e","p","t"," ","i","n"," ","a"," ">>,
       suffix |->
         <<" ","m","a","n","n","e","r","."," ","T","h","e"," ","t","o","p",
           "i","c"," ","i","n","v","o","l","v","e","s"," ","s","e","v","e",
           "r","a","l"," ","i","n","t","e","r","c","o","n","n","e","c","t",
           "e","d"," ","c","o","m","p","o","n","e","n","t","s"," ","t","h",
           "a","t"," ","w","o","r","k"," ","t","o","g","e","t","h","e","r",
           " ","t","o"," ","c","r","e","a","t","e"," ","t","h","e"," ","o",
           "v","e","r","a","l","l"," ","s","y","s","t","e","m","."," ","U",
           "n","d","e","r","s","t","a","n","d","i","n","g"," ","e","a","c",
           "h"," ","p","a","r","t"," ","h","e","l","p","s"," ","b","u","i",
           "l","d"," ","a"," ","c","o","m","p","r","e","h","e","n","s","i",
           "v","e"," ","p","i","c","t","u","r","e"," ","o","f"," ","h","o",
           "w"," ","e","v","e","r","y","t","h","i","n","g"," ","f","u","n",
           "c","t","i","o","n","s"," ","t","o","g","e","t","h","e","r",".">>],
      [prefix |->
         <<"T","h","i","s"," ","e","x","p","l","a","n","a","t","i","o","n",
           " ","t","a","k","e","s"," ","a"," ">>,
       suffix |->
         <<" ","a","p","p","r","o","a","c","h"," ","t","o"," ","b","r","e",
           "a","k"," ","d","o","w","n"," ","c","o","m","p","l","e","x"," ",
           "i","d","e","a","s"," ","i","n","t","o"," ","u","n","d","e","r",
           "s","t","a","n","d","a","b","l","e"," ","c","o","m","p","o","n",
           "e","n","t","s","."," ","E","a","c","h"," ","s","e","c","t","i",
           "o","n"," ","b","u","i","l","d","s"," ","u","p","o","n"," ","t",
           "h","e"," ","p","r","e","v","i","o","u","s"," ","o","n","e",",",
           " ","c","r","e","a","t","i","n","g"," ","a"," ","l","o","g","i",
           "c","a","l"," ","p","r","o","g","r","e","s","s","i","o","n"," ",
           "t","h","a","t"," ","h","e","l","p","s"," ","r","e","a","d","e",
           "r","s"," ","g","r","a","s","p"," ","t","h","e"," ","f","u","n",
           "d","a","m","e","n","t","a","l"," ","c","o","n","c","e","p","t",
           "s"," ","a","n","d"," ","t","h","e","i","r"," ","p","r","a","c",
           "t","i","c","a","l"," ","a","p","p","l","i","c","a","t","i","o",
           "n","s",".">>],
      [prefix |->
         <<"T","o"," ","u","n","d","e","r","s","t","a","n","d"," ","t","h",
           "i","s"," ","t","o","p","i","c"," ","f","u","l","l","y",","," ",
           "w","e"," ","n","e","e","d"," ","t","o"," ","e","x","a","m","i",
           "n","e"," ","i","t"," ","f","r","o","m"," ","m","u","l","t","i",
           "p","l","e"," ","p","e","r","s","p","e","c","t","i","v","e","s",
           "."," ","T","h","i","s"," ">>,
       suffix |->
         <<" ","e","x","p","l","a","n","a","t","i","o","n"," ","p","r","o",
           "v","i","d","e","s"," ","t","h","e"," ","n","e","c","e","s","s",
           "a","r","y"," ","c","o","n","t","e","x","t"," ","w","h","i","l",
           "e"," ","m","a","i","n","t","a","i","n","i","n","g"," ","c","l",
           "a","r","i","t","y"," ","t","h","r","o","u","g","h","o","u","t",
           "."," ","K","e","y"," ","c","o","n","c","e","p","t","s"," ","a",
           "r","e"," ","h","i","g","h","l","i","g","h","t","e","d"," ","a",
           "n","d"," ","s","u","p","p","o","r","t","e","d"," ","w","i","t",
           "h"," ","r","e","l","e","v","a","n","t"," ","e","x","a","m","p",
           "l","e","s"," ","t","h","a","t"," ","i","l","l","u","s","t","r",
           "a","t","e"," ","t","h","e"," ","m","a","i","n"," ","p","o","i",
           "n","t","s"," ","e","f","f","e","c","t","i","v","e","l","y",".">>],
      [prefix |->
         <<"T","h","e"," ","e","x","p","l","a","n","a","t","i","o","n"," ",
           "b","e","g","i","n","s"," ","w","i","t","h"," ","f","o","u","n",
           "d","a","t","i","o","n","a","l"," ","k","n","o","w","l","e","d",
           "g","e"," ","a","n","d"," ","g","r","a","d","u","a","l","l","y",
           " ","i","n","t","r","o","d","u","c","e","s"," ","m","o","r","e",
           " ","a","d","v","a","n","c","e","d"," ","c","o","n","c","e","p",
           "t","s","."," ","T","h","i","s"," ">>,
       suffix |->
         <<" ","a","p","p","r","o","a","c","h"," ","e","n","s","u","r","e",
           "s"," ","t","h","a","t"," ","r","e","a","d","e","r","s"," ","c",
           "a","n"," ","f","o","l","l","o","w"," ","t","h","e"," ","r","e",
           "a","s","o","n","i","n","g"," ","a","n","d"," ","b","u","i","l",
           "d"," ","t","h","e","i","r"," ","u","n","d","e","r","s","t","a",
           "n","d","i","n","g"," ","p","r","o","g","r","e","s","s","i","v",
           "e","l","y",","," ","m","a","k","i","n","g"," ","c","o","m","p",
           "l","e","x"," ","t","o","p","i","c","s"," ","m","o","r","e"," ",
           "a","c","c","e","s","s","i","b","l","e",".">>],
      [prefix |->
         <<"T","h","i","s"," ","c","o","m","p","r","e","h","e","n","s","i",
           "v","e"," ","e","x","p","l","a","n","a","t","i","o","n"," ","c",
           "o","v","e","r","s"," ","t","h","e"," ","e","s","s","e","n","t",
           "i","a","l"," ","a","s","p","e","c","t","s"," ","w","h","i","l",
           "e"," ","a","c","k","n","o","w","l","e","d","g","i","n","g"," ",
           "t","h","e"," ","c","o","m","p","l","e","x","i","t","y"," ","o",
           "f"," ","t","h","e"," ","s","u","b","j","e","c","t"," ","m","a",
           "t","t","e","r","."," ","T","h","e"," ">>,
       suffix |->
         <<" ","s","t","y","l","e"," ","e","n","s","u","r","e","s"," ","t",
           "h","a","t"," ","r","e","a","d","e","r","s"," ","c","a","n"," ",
           "g","r","a","s","p"," ","b","o","t","h"," ","t","h","e"," ","t",
           "h","e","o","r","e","t","i","c","a","l"," ","f","r","a","m","e",
           "w","o","r","k"," ","a","n","d"," ","p","r","a","c","t","i","c",
           "a","l"," ","a","p","p","l","i","c","a","t","i","o","n","s"," ",
           "o","f"," ","t","h","e"," ","c","o","n","c","e","p","t","s"," ",
           "b","e","i","n","g"," ","d","i","s","c","u","s","s","e","d",".">>]
    >>

QATemplates ==
    <<
      [prefix |->
         <<"B","a","s","e","d"," ","o","n"," ","t","h","e"," ","i","n","f",
           "o","r","m","a","t","i","o","n"," ","a","v","a","i","l","a","b",
           "l","e",","," ","h","e","r","e","'","s"," ","a"," ">>,
       suffix |->
         <<" ","a","n","s","w","e","r"," ","t","o"," ","y","o","u","r"," ",
           "q","u","e","s","t","i","o","n","."," ","T","h","e"," ","r","e",
           "s","p","o","n","s","e"," ","c","o","n","s","i","d","e","r","s",
           " ","m","u","l","t","i","p","l","e"," ","f","a","c","t","o","r",
           "s"," ","a","n","d"," ","p","r","o","v","i","d","e","s"," ","a",
           " ","b","a","l","a","n","c","e","d"," ","p","e","r","s","p","e",
           "c","t","i","v","e"," ","t","h","a","t"," ","a","d","d","r","e",
           "s","s","e","s"," ","t","h","e"," ","c","o","r","e"," ","a","s",
           "p","e","c","t","s"," ","o","f"," ","w","h","a","t"," ","y","o",
           "u","'","r","e"," ","a","s","k","i","n","g"," ","a","b","o","u",
           "t",".">>],
      [prefix |->
         <<"Y","o","u","r"," ","q","u","e","s","t","i","o","n"," ","t","o",
           "u","c","h","e","s"," ","o","n"," ","a","n"," ","i","m","p","o",
           "r","t","a","n","t"," ","t","o","p","i","c"," ","t","h","a","t",
           " ","r","e","q","u","i","r","e","s"," ","c","a","r","e","f","u",
           "l"," ","c","o","n","s","i","d","e","r","a","t","i","o","n",".",
           " ","T","h","i","s"," ">>,
       suffix |->
         <<" ","r","e","s","p","o","n","s","e"," ","e","x","a","m","i","n",
           "e","s"," ","t","h","e"," ","e","v","i","d","e","n","c","e"," ",
           "a","n","d"," ","p","r","o","v","i","d","e","s"," ","i","n","s",
           "i","g","h","t","s"," ","t","h","a","t"," ","h","e","l","p"," ",
           "c","l","a","r","i","f","y"," ","t","h","e"," ","s","i","t","u",
           "a","t","i","o","n"," ","w","h","i","l","e"," ","a","c","k","n",
           "o","w","l","e","d","g","i","n","g"," ","t","h","e"," ","c","o",
           "m","p","l","e","x","i","t","y"," ","i","n","v","o","l","v","e",
           "d",".">>],
      [prefix |->
         <<"T","o"," ","a","n","s","w","e","r"," ","y","o","u","r"," ","q",
           "u","e","s","t","i","o","n"," ","e","f","f","e","c","t","i","v",
           "e","l","y",","," ","I","'","l","l"," ","p","r","o","v","i","d",
           "e"," ","a"," ">>,
       suffix |->
         <<" ","r","e","s","p","o","n","s","e"," ","t","h","a","t"," ","a",
           "d","d","r","e","s","s","e","s"," ","b","o","t","h"," ","t","h",
           "e"," ","i","m","m","e","d","i","a","t","e"," ","a","s","p","e",
           "c","t","s"," ","a","n","d"," ","t","h","e"," ","b","r","o","a",
           "d","e","r"," ","c","o","n","t","e","x","t","."," ","T","h","i",
           "s"," ","a","p","p","r","o","a","c","h"," ","e","n","s","u","r",
           "e","s"," ","y","o","u"," ","r","e","c","e","i","v","e"," ","a",
           " ","c","o","m","p","l","e","t","e"," ","a","n","d"," ","a","c",
           "c","u","r","a","t","e"," ","a","n","s","w","e","r"," ","t","h",
           "a","t"," ","c","o","n","s","i","d","e","r","s"," ","a","l","l",
           " ","r","e","l","e","v","a","n","t"," ","f","a","c","t","o","r",
           "s",".">>],
      [prefix |->
         <<"T","h","e"," ","a","n","s","w","e","r"," ","t","o"," ","y","o",
           "u","r"," ","q","u","e","s","t","i","o","n"," ","i","n","v","o",
           "l","v","e","s"," ","s","e","v","e","r","a","l"," ","k","e","y",
           " ","c","o","n","s","i","d","e","r","a","t","i","o","n","s",".",
           " ","T","h","i","s"," ">>,
       suffix |->
         <<" ","r","e","s","p","o","n","s","e"," ","p","r","o","v","i","d",
           "e","s"," ","a"," ","t","h","o","r","o","u","g","h"," ","a","n",
           "a","l","y","s","i","s"," ","t","h","a","t"," ","h","e","l","p",
           "s"," ","e","x","p","l","a","i","n"," ","n","o","t"," ","j","u",
           "s","t"," ","w","h","a","t"," ","t","h","e"," ","a","n","s","w",
           "e","r"," ","i","s",","," ","b","u","t"," ","w","h","y"," ","i",
           "t","'","s"," ","t","h","e"," ","c","a","s","e"," ","a","n","d",
           " ","w","h","a","t"," ","i","m","p","l","i","c","a","t","i","o",
           "n","s"," ","i","t"," ","m","i","g","h","t"," ","h","a","v","e",".">>],
      [prefix |->
         <<"H","e","r","e","'","s"," ","a"," ">>,
       suffix |->
         <<" ","r","e","s","p","o","n","s","e"," ","t","h","a","t"," ","a",
           "d","d","r","e","s","s","e","s"," ","y","o","u","r"," ","q","u",
           "e","s","t","i","o","n"," ","w","h","i","l","e"," ","p","r","o",
           "v","i","d","i","n","g"," ","t","h","e"," ","n","e","c","e","s",
           "s","a","r","y"," ","c","o","n","t","e","x","t"," ","t","o"," ",
           "u","n","d","e","r","s","t","a","n","d"," ","t","h","e"," ","a",
           "n","s","w","e","r"," ","f","u","l","l","y","."," ","T","h","e",
           " ","e","x","p","l","a","n","a","t","i","o","n"," ","c","o","n",
           "s","i","d","e","r","s"," ","d","i","f","f","e","r","e","n","t",
           " ","p","e","r","s","p","e","c","t","i","v","e","s"," ","a","n",
           "d"," ","e","v","i","d","e","n","c","e"," ","t","o"," ","a","r",
           "r","i","v","e"," ","a","t"," ","a"," ","w","e","l","l","-","i",
           "n","f","o","r","m","e","d"," ","c","o","n","c","l","u","s","i",
           "o","n",".">>]
    >>

CodeTemplates ==
    <<
      [prefix |->
         <<"H","e","r","e","'","s"," ","a"," ">>,
       suffix |->
         <<" ","s","o","l","u","t","i","o","n"," ","t","o"," ","y","o","u",
           "r"," ","p","r","o","g","r","a","m","m","i","n","g"," ","c","h",
           "a","l","l","e","n","g","e","."," ","T","h","e"," ","c","o","d",
           "e"," ","d","e","m","o","n","s","t","r","a","t","e","s"," ","b",
           "e","s","t"," ","p","r","a","c","t","i","c","e","s"," ","a","n",
           "d"," ","i","n","c","l","u","d","e","s"," ","c","l","e","a","r",
           " ","c","o","m","m","e","n","t","s"," ","t","h","a","t"," ","e",
           "x","p","l","a","i","n"," ","t","h","e"," ","l","o","g","i","c",
           " ","a","n","d"," ","a","p","p","r","o","a","c","h","."," ","T",
           "h","e"," ","i","m","p","l","e","m","e","n","t","a","t","i","o",
           "n"," ","i","s"," ","s","t","r","u","c","t","u","r","e","d"," ",
           "f","o","r"," ","r","e","a","d","a","b","i","l","i","t","y"," ",
           "a","n","d"," ","m","a","i","n","t","a","i","n","a","b","i","l",
           "i","t","y",".">>],
      [prefix |->
         <<"T","h","i","s"," ","p","r","o","g","r","a","m","m","i","n","g",
           " ","s","o","l","u","t","i","o","n"," ","a","d","d","r","e","s",
           "s","e","s"," ","y","o","u","r"," ","r","e","q","u","i","r","e",
           "m","e","n","t","s"," ","u","s","i","n","g"," ">>,
       suffix |->
         <<" ","t","e","c","h","n","i","q","u","e","s","."," ","T","h","e",
           " ","c","o","d","e"," ","f","o","l","l","o","w","s"," ","c","l",
           "e","a","n"," ","c","o","d","e"," ","p","r","i","n","c","i","p",
           "l","e","s"," ","a","n","d"," ","i","n","c","l","u","d","e","s",
           " ","p","r","o","p","e","r"," ","e","r","r","o","r"," ","h","a",
           "n","d","l","i","n","g",","," ","m","a","k","i","n","g"," ","i",
           "t"," ","r","o","b","u","s","t"," ","a","n","d"," ","s","u","i",
           "t","a","b","l","e"," ","f","o","r"," ","p","r","o","d","u","c",
           "t","i","o","n"," ","u","s","e",".">>],
      [prefix |->
         <<"T","h","e"," ","s","o","l","u","t","i","o","n"," ","d","e","m",
           "o","n","s","t","r","a","t","e","s"," ","e","f","f","e","c","t",
           "i","v","e"," ","p","r","o","b","l","e","m","-","s","o","l","v",
           "i","n","g"," ","t","h","r","o","u","g","h"," ">>,
       suffix |->
         <<" ","p","r","o","g","r","a","m","m","i","n","g"," ","t","e","c",
           "h","n","i","q","u","e","s","."," ","E","a","c","h"," ","f","u",
           "n","c","t","i","o","n"," ","h","a","s"," ","a"," ","c","l","e",
           "a","r"," ","p","u","r","p","o","s","e",","," ","a","n","d"," ",
           "t","h","e"," ","o","v","e","r","a","l","l"," ","a","r","c","h",
           "i","t","e","c","t","u","r","e"," ","m","a","k","e","s"," ","t",
           "h","e"," ","c","o","d","e"," ","e","a","s","y"," ","t","o"," ",
           "u","n","d","e","r","s","t","a","n","d",","," ","t","e","s","t",
           ","," ","a","n","d"," ","m","o","d","i","f","y"," ","a","s"," ",
           "n","e","e","d","e","d",".">>],
      [prefix |->
         <<"T","h","i","s"," ","c","o","d","e"," ","i","m","p","l","e","m",
           "e","n","t","a","t","i","o","n"," ","p","r","o","v","i","d","e",
           "s"," ","a"," ","s","o","l","i","d"," ","f","o","u","n","d","a",
           "t","i","o","n"," ","f","o","r"," ","t","h","e"," ","r","e","q",
           "u","e","s","t","e","d"," ","f","u","n","c","t","i","o","n","a",
           "l","i","t","y","."," ","T","h","e"," ">>,
       suffix |->
         <<" ","a","p","p","r","o","a","c","h"," ","e","n","s","u","r","e",
           "s"," ","t","h","a","t"," ","t","h","e"," ","s","o","l","u","t",
           "i","o","n"," ","i","s"," ","b","o","t","h"," ","c","o","m","p",
           "l","e","t","e"," ","a","n","d"," ","u","n","d","e","r","s","t",
           "a","n","d","a","b","l","e",","," ","m","a","k","i","n","g"," ",
           "i","t"," ","s","u","i","t","a","b","l","e"," ","f","o","r"," ",
           "l","e","a","r","n","i","n","g"," ","a","n","d"," ","p","r","a",
           "c","t","i","c","a","l"," ","a","p","p","l","i","c","a","t","i",
           "o","n",".">>],
      [prefix |->
         <<"H","e","r","e","'","s"," ","a"," ">>,
       suffix |->
         <<" ","p","r","o","g","r","a","m","m","i","n","g"," ","s","o","l",
           "u","t","i","o","n"," ","t","h","a","t"," ","s","h","o","w","c",
           "a","s","e","s"," ","g","o","o","d"," ","s","o","f","t","w","a",
           "r","e"," ","e","n","g","i","n","e","e","r","i","n","g"," ","p",
           "r","a","c","t","i","c","e","s","."," ","T","h","e"," ","c","o",
           "d","e"," ","b","a","l","a","n","c","e","s"," ","f","u","n","c",
           "t","i","o","n","a","l","i","t","y"," ","w","i","t","h"," ","c",
           "o","d","e"," ","q","u","a","l","i","t","y",","," ","c","o","n",
           "s","i","d","e","r","i","n","g"," ","e","d","g","e"," ","c","a",
           "s","e","s"," ","a","n","d"," ","p","r","o","v","i","d","i","n",
           "g"," ","c","l","e","a","r"," ","d","o","c","u","m","e","n","t",
           "a","t","i","o","n"," ","f","o","r"," ","f","u","t","u","r","e",
           " ","m","a","i","n","t","e","n","a","n","c","e",".">>]
    >>

GeneralTemplates ==
    <<
      [prefix |->
         <<"T","h","i","s"," ","i","s"," ","a","n"," ","i","n","t","e","r",
           "e","s","t","i","n","g"," ","t","o","p","i","c"," ","t","h","a",
           "t"," ","d","e","s","e","r","v","e","s"," ","t","h","o","u","g",
           "h","t","f","u","l"," ","c","o","n","s","i","d","e","r","a","t",
           "i","o","n","."," ","T","h","e"," ">>,
       suffix |->
         <<" ","a","p","p","r","o","a","c","h"," ","a","l","l","o","w","s",
           " ","f","o","r"," ","a"," ","c","o","m","p","r","e","h","e","n",
           "s","i","v","e"," ","e","x","p","l","o","r","a","t","i","o","n",
           " ","w","h","i","l","e"," ","m","a","i","n","t","a","i","n","i",
           "n","g"," ","f","o","c","u","s"," ","o","n"," ","t","h","e"," ",
           "k","e","y"," ","p","o","i","n","t","s"," ","t","h","a","t"," ",
           "m","a","t","t","e","r"," ","m","o","s","t"," ","t","o"," ","y",
           "o","u","r"," ","s","p","e","c","i","f","i","c"," ","q","u","e",
           "s","t","i","o","n"," ","o","r"," ","r","e","q","u","e","s","t",".">>],
      [prefix |->
         <<"Y","o","u","r"," ","p","r","o","m","p","t"," ","r","a","i","s",
           "e","s"," ","s","e","v","e","r","a","l"," ","i","m","p","o","r",
           "t","a","n","t"," ","p","o","i","n","t","s"," ","t","h","a","t",
           " ","w","a","r","r","a","n","t"," ","c","a","r","e","f","u","l",
           " ","a","n","a","l","y","s","i","s","."," ","T","h","e"," ">>,
       suffix |->
         <<" ","s","t","y","l","e"," ","o","f"," ","r","e","s","p","o","n",
           "s","e"," ","e","n","s","u","r","e","s"," ","t","h","a","t"," ",
           "e","a","c","h"," ","a","s","p","e","c","t"," ","r","e","c","e",
           "i","v","e","s"," ","a","p","p","r","o","p","r","i","a","t","e",
           " ","a","t","t","e","n","t","i","o","n"," ","w","h","i","l","e",
           " ","m","a","i","n","t","a","i","n","i","n","g"," ","c","o","h",
           "e","r","e","n","c","e"," ","t","h","r","o","u","g","h","o","u",
           "t"," ","t","h","e"," ","d","i","s","c","u","s","s","i","o","n",".">>],
      [prefix |->
         <<"T","h","i","s"," ","t","o","p","i","c"," ","e","n","c","o","m",
           "p","a","s","s","e","s"," ","m","u","l","t","i","p","l","e"," ",
           "d","i","m","e","n","s","i","o","n","s"," ","t","h","a","t"," ",
           "a","r","e"," ","w","o","r","t","h"," ","e","x","p","l","o","r",
           "i","n","g"," ","i","n"," ","d","e","t","a","i","l","."," ","T",
           "h","e"," ","r","e","s","p","o","n","s","e"," ","t","a","k","e",
           "s"," ","a"," ">>,
       suffix |->
         <<" ","a","p","p","r","o","a","c","h",","," ","b","a","l","a","n",
           "c","i","n","g"," ","d","e","p","t","h"," ","w","i","t","h"," ",
           "a","c","c","e","s","s","i","b","i","l","i","t","y"," ","t","o",
           " ","p","r","o","v","i","d","e"," ","a"," ","m","e","a","n","i",
           "n","g","f","u","l"," ","a","n","d"," ","e","n","g","a","g","i",
           "n","g"," ","a","n","s","w","e","r"," ","t","o"," ","y","o","u",
           "r"," ","p","r","o","m","p","t",".">>],
      [prefix |->
         <<"T","h","e"," ","s","u","b","j","e","c","t"," ","m","a","t","t",
           "e","r"," ","y","o","u","'","v","e"," ","r","a","i","s","e","d",
           " ","i","n","v","o","l","v","e","s"," ","v","a","r","i","o","u",
           "s"," ","i","n","t","e","r","c","o","n","n","e","c","t","e","d",
           " ","e","l","e","m","e","n","t","s"," ","t","h","a","t"," ","w",
           "o","r","k"," ","t","o","g","e","t","h","e","r"," ","t","o"," ",
           "c","r","e","a","t","e"," ","a"," ","c","o","m","p","l","e","x",
           " ","s","y","s","t","e","m","."," ","A"," ">>,
       suffix |->
         <<" ","r","e","s","p","o","n","s","e"," ","a","l","l","o","w","s",
           " ","f","o","r"," ","t","h","o","r","o","u","g","h"," ","c","o",
           "v","e","r","a","g","e"," ","w","h","i","l","e"," ","e","n","s",
           "u","r","i","n","g"," ","t","h","a","t"," ","t","h","e"," ","m",
           "a","i","n"," ","p","o","i","n","t","s"," ","a","r","e"," ","c",
           "l","e","a","r","l","y"," ","c","o","m","m","u","n","i","c","a",
           "t","e","d"," ","a","n","d"," ","w","e","l","l","-","s","u","p",
           "p","o","r","t","e","d",".">>],
      [prefix |->
         <<"Y","o","u","r"," ","p","r","o","m","p","t"," ","a","d","d","r",
           "e","s","s","e","s"," ","a","n"," ","i","m","p","o","r","t","a",
           "n","t"," ","a","r","e","a"," ","t","h","a","t"," ","b","e","n",
           "e","f","i","t","s"," ","f","r","o","m"," ","c","a","r","e","f",
           "u","l"," ","a","n","a","l","y","s","i","s"," ","a","n","d"," ",
           "t","h","o","u","g","h","t","f","u","l"," ","c","o","n","s","i",
           "d","e","r","a","t","i","o","n","."," ","T","h","e"," ">>,
       suffix |->
         <<" ","a","p","p","r","o","a","c","h"," ","e","n","s","u","r","e",
           "s"," ","t","h","a","t"," ","t","h","e"," ","r","e","s","p","o",
           "n","s","e"," ","i","s"," ","b","o","t","h"," ","i","n","f","o",
           "r","m","a","t","i","v","e"," ","a","n","d"," ","e","n","g","a",
           "g","i","n","g",","," ","p","r","o","v","i","d","i","n","g"," ",
           "v","a","l","u","e"," ","w","h","i","l","e"," ","m","a","i","n",
           "t","a","i","n","i","n","g"," ","c","l","a","r","i","t","y"," ",
           "a","n","d"," ","a","c","c","e","s","s","i","b","i","l","i","t",
           "y",".">>]
    >>

\* the characters of a wording
LevelChars(level) ==
    CASE level = "highly imaginative" ->
           <<"h","i","g","h","l","y"," ","i","m","a","g","i","n","a","t","i",
             "v","e">>
      [] level = "moderately creative" ->
           <<"m","o","d","e","r","a","t","e","l","y"," ","c","r","e","a","t",
             "i","v","e">>
      [] level = "structured" ->
           <<"s","t","r","u","c","t","u","r","e","d">>
      [] level = "precise and technical" ->
           <<"p","r","e","c","i","s","e"," ","a","n","d"," ","t","e","c","h",
             "n","i","c","a","l">>
      [] level = "conversational and accessible" ->
           <<"c","o","n","v","e","r","s","a","t","i","o","n","a","l"," ","a",
             "n","d"," ","a","c","c","e","s","s","i","b","l","e">>
      [] level = "direct and concise" ->
           <<"d","i","r","e","c","t"," ","a","n","d"," ","c","o","n","c","i",
             "s","e">>
      [] level = "comprehensive and nuanced" ->
           <<"c","o","m","p","r","e","h","e","n","s","i","v","e"," ","a","n",
             "d"," ","n","u","a","n","c","e","d">>
      [] level = "detailed and comprehensive" ->
           <<"d","e","t","a","i","l","e","d"," ","a","n","d"," ","c","o","m",
             "p","r","e","h","e","n","s","i","v","e">>
      [] level = "concise and focused" ->
           <<"c","o","n","c","i","s","e"," ","a","n","d"," ","f","o","c","u",
             "s","e","d">>
      [] level = "creative and engaging" ->
           <<"c","r","e","a","t","i","v","e"," ","a","n","d"," ","e","n","g",
             "a","g","i","n","g">>
      [] level = "formal and structured" ->
           <<"f","o","r","m","a","l"," ","a","n","d"," ","s","t","r","u","c",
             "t","u","r","e","d">>
      [] level = "balanced and informative" ->
           <<"b","a","l","a","n","c","e","d"," ","a","n","d"," ","i","n","f",
             "o","r","m","a","t","i","v","e">>

MockTemplates(category) ==
    CASE category = "creative" -> CreativeTemplates
      [] category = "explanation" -> ExplanationTemplates
      [] category = "qa" -> QATemplates
      [] category = "code" -> CodeTemplates
      [] OTHER -> GeneralTemplates

\* the string a generator returns
MockText(content) ==
    LET parts == MockTemplates(content.category)[content.template + 1]
    IN  parts.prefix \o LevelChars(content.level) \o parts.suffix

\* result.content as a string
ContentText(content) ==
    IF content.kind = "remote" THEN content.text ELSE MockText(content)

(***************************************************************************)
(* POST /api/generate.  http is the handler's state for one request:       *)
(*   pc        "none" no request yet; "createExperiment", "createResponse",*)
(*             "createMetric", "updateExperiment" awaiting that database   *)
(*             call; "generating" awaiting generateMultipleResponses;      *)
(*             "nextResult" at the head of the result loop; "responded"    *)
(*   body      the request body; an absent field is <<>>, a present one    *)
(*             <<value>>                                                   *)
(*   status    the HTTP status sent, 0 before                              *)
(*   combos    parameterCombinations                                       *)
(*   experiment  <<id>> of the experiment record once created              *)
(*   results, i  generationResults and the index of the result loop        *)
(*   current   metrics and details of generationResults[i]                 *)
(*   responseId, written  the response record of generationResults[i] and  *)
(*             the number of its metricCalculation records written         *)
(*   responses the responses array                                         *)
(*   reply     <<data>> of the success response                            *)
(* db holds the three tables; an id is the record's position.              *)
(***************************************************************************)
RouteRange ==
    [temperature |-> Interval(Rat(1, 10), Rat(9, 10)),
     top_p |-> Interval(Rat(8, 10), Rat(1, 1)),
     max_tokens |-> Interval(Rat(100, 1), Rat(1000, 1))]

RunCounts == {0 - 1, 0, MaxRuns + 1} \cup 1..MaxTuples

RequestBodies ==
    [prompt : {<<>>, << <<>> >>} \cup {<<p>> : p \in Prompts},
     parameterRange : {<<>>, <<RouteRange>>},
     numberOfRuns : {<<>>} \cup {<<n>> : n \in RunCounts}]

RouteRandoms == { <<Rat(0, 1)>>, <<Rat(999, 1000), Rat(1, 2)>> }

\* !prompt || !parameterRange || !numberOfRuns
MissingRequired(body) ==
    \/ body.prompt \in {<<>>, << <<>> >>}
    \/ body.parameterRange = <<>>
    \/ body.numberOfRuns \in {<<>>, <<0>>}

\* numberOfRuns > 20
TooManyRuns(body) == body.numberOfRuns[1] > MaxRuns

Received(body) ==
    [pc |-> "responded", body |-> body, status |-> 0, error |-> "", combos |-> <<>>,
     experiment |-> <<>>, results |-> <<>>, i |-> 0, current |-> <<>>,
     responseId |-> 0, written |-> 0, responses |-> <<>>, reply |-> <<>>]

RejectMissingFields ==
    /\ http.pc = "none"
    /\ \E body \in RequestBodies :
          /\ MissingRequired(body)
          /\ http' = [Received(body) EXCEPT
                        !.status = 400,
                        !.error = "Missing required fields: prompt, parameterRange, numberOfRuns"]
    /\ UNCHANGED <<isMockMode, run, calc, db, cron>>

RejectTooManyRuns ==
    /\ http.pc = "none"
    /\ \E body \in RequestBodies :
          /\ ~MissingRequired(body)
          /\ TooManyRuns(body)
          /\ http' = [Received(body) EXCEPT
                        !.status = 400,
                        !.error = "Maximum 20 runs allowed per request"]
    /\ UNCHANGED <<isMockMode, run, calc, db, cron>>

\* the request passes both checks: the tuples are sampled and
\* prisma.experiment.create is called
AcceptRequest ==
    /\ http.pc = "none"
    /\ \E body \in RequestBodies, randoms \in RouteRandoms :
          /\ ~MissingRequired(body)
          /\ ~TooManyRuns(body)
          /\ http' = [Received(body) EXCEPT
                        !.pc = "createExperiment",
                        !.combos = GenerateParameterCombinations(
                                       body.parameterRange[1], body.numberOfRuns[1], randoms)]
    /\ UNCHANGED <<isMockMode, run, calc, db, cron>>

\* prisma.experiment.create resolves; llmService.generateMultipleResponses
\* is called
ExperimentCreated ==
    /\ http.pc = "createExperiment"
    /\ run[1].pc = "idle"
    /\ LET id == Len(db.experiments) + 1
       IN  /\ db' = [db EXCEPT !.experiments =
                       Append(@, [id |-> id, totalRuns |-> http.body.numberOfRuns[1]])]
           /\ http' = [http EXCEPT !.pc = "generating", !.experiment = <<id>>]
    /\ run' = [run EXCEPT ![1] = [IdleRun EXCEPT !.pc = "loop",
                                                 !.prompt = http.body.prompt[1],
                                                 !.tuples = http.combos]]
    /\ UNCHANGED <<isMockMode, calc, cron>>

\* the awaited prisma call rejects: the catch block answers 500
DatabaseError ==
    /\ http.pc \in {"createExperiment", "createResponse", "createMetric", "updateExperiment"}
    /\ http' = [http EXCEPT !.pc = "responded", !.status = 500,
                            !.error = "Failed to generate responses"]
    /\ UNCHANGED <<isMockMode, run, calc, db, cron>>

\* QualityMetricsService.calculateAllMetrics(result.content, prompt)
ResultMetrics(content, prompt) == CalculateAllMetrics(ContentText(content), prompt)

\* generateMultipleResponses has returned: the handler holds the results,
\* and nothing of the call but its result is left
GenerationReturned ==
    /\ http.pc = "generating"
    /\ run[1].pc = "returned"
    /\ http' = [http EXCEPT !.pc = "nextResult", !.results = run[1].returned[1]]
    /\ run' = [run EXCEPT ![1] = IdleRun]
    /\ UNCHANGED <<isMockMode, calc, db, cron>>

\* the head of the result loop at index http.i: score the next result and
\* call prisma.response.create, or leave the loop, compute averageMetrics
\* and call prisma.experiment.update
NextResult ==
    /\ http.pc = "nextResult"
    /\ http' = IF http.i < Len(http.results)
               THEN [http EXCEPT !.pc = "createResponse",
                                 !.current = <<ResultMetrics(http.results[http.i + 1].content,
                                                            http.body.prompt[1])>>]
               ELSE [http EXCEPT !.pc = "updateExperiment", !.current = <<>>]
    /\ UNCHANGED <<isMockMode, run, calc, db, cron>>

\* prisma.response.create resolves; the first prisma.metricCalculation.create
\* is called
ResponseCreated ==
    /\ http.pc = "createResponse"
    /\ LET id == Len(db.responses) + 1
       IN  /\ db' = [db EXCEPT !.responses =
                       Append(@, [id |-> id, experimentId |-> http.experiment[1],
                                  metrics |-> http.current[1].metrics])]
           /\ http' = [http EXCEPT !.pc = "createMetric", !.responseId = id, !.written = 0]
    /\ UNCHANGED <<isMockMode, run, calc, cron>>

\* Object.entries(details), in insertion order
MetricTypes == <<"coherence", "completeness", "readability", "relevance">>

\* detail.score || 0
ScoreOrZero(score) == IF IsNaN(score) THEN 0 ELSE score

\* a prisma.metricCalculation.create resolves; after the fourth the response
\* is pushed, the totals are updated and the loop goes on
MetricCreated ==
    /\ http.pc = "createMetric"
    /\ LET metricType == MetricTypes[http.written + 1]
           wrote == [http EXCEPT !.written = @ + 1]
       IN  /\ db' = [db EXCEPT !.metricCalculations =
                       Append(@, [responseId |-> http.responseId,
                                  metricType |-> metricType,
                                  score |-> ScoreOrZero(http.current[1].details[metricType])])]
           /\ http' = IF wrote.written < Len(MetricTypes)
                      THEN wrote
                      ELSE [wrote EXCEPT
                              !.pc = "nextResult",
                              !.responses = Append(@, [id |-> http.responseId,
                                                       metrics |-> http.current[1].metrics]),
                              !.i = @ + 1]
    /\ UNCHANGED <<isMockMode, run, calc, cron>>

\* prisma.experiment.update resolves; res.json sends the result
ExperimentUpdated ==
    /\ http.pc = "updateExperiment"
    /\ LET responseCount == Len(http.responses)
           averageMetrics == AverageMetrics([k \in DOMAIN http.responses |->
                                               http.responses[k].metrics])
       IN  /\ db' = [db EXCEPT !.experiments[http.experiment[1]].totalRuns = responseCount]
           /\ http' = [http EXCEPT !.pc = "responded", !.status = 200,
                                   !.reply = <<[experimentId |-> http.experiment[1],
                                                responses |-> http.responses,
                                                totalRuns |-> responseCount,
                                                averageMetrics |-> averageMetrics]>>]
    /\ UNCHANGED <<isMockMode, run, calc, cron>>

\* the steps of the generateMultipleResponses call the handler awaits; the
\* sampled tuples are never undefined
GenerationStep ==
    \/ CallInMockMode(1)
    \/ CallFirstModel(1)
    \/ ReturnRemote(1)
    \/ NextModel(1)
    \/ Backoff(1)
    \/ BackoffElapsed(1)
    \/ FallbackToMock(1)
    \/ RaiseFromCatch(1)
    \/ PaceElapsed(1)
    \/ Finish(1)

NextRoute ==
    \/ RejectMissingFields
    \/ RejectTooManyRuns
    \/ AcceptRequest
    \/ ExperimentCreated
    \/ DatabaseError
    \/ GenerationStep
    \/ GenerationReturned
    \/ NextResult
    \/ ResponseCreated
    \/ MetricCreated
    \/ ExperimentUpdated

SpecRoute == Init /\ [][NextRoute]_vars

\* the request of the claim: the run count is absent or outside 1..20, or
\* the prompt or the parameter range is lacking
InvalidRequest(body) ==
    \/ body.prompt \in {<<>>, << <<>> >>}
    \/ body.parameterRange = <<>>
    \/ body.numberOfRuns \notin {<<n>> : n \in 1..MaxRuns}

\* C11: a request whose run count lies outside [1, 20], or that lacks the
\* prompt or the parameter range, is answered 400 with no experiment record
\* created and no provider call made
C11_InvalidRequestRejected ==
    (http.pc # "none" /\ InvalidRequest(http.body)) =>
        /\ http.pc = "responded"
        /\ http.status = 400
        /\ db.experiments = <<>>
        /\ run[1].pc = "idle"

(***************************************************************************)
(* Two experiment runs in flight at once: two POST /api/generate requests  *)
(* whose handlers both await generateMultipleResponses of the one          *)
(* llmService.  Run 1 is an experiment of two tuples, run 2 one of a       *)
(* single tuple, with different prompts.                                   *)
(***************************************************************************)
ConcurrentRequests(r) ==
    IF r = 1
    THEN {[prompt |-> <<"S","t","o","r","y">>,
           tuples |-> <<[model |-> "", temperature |-> 20, top_p |-> 90, max_tokens |-> 256],
                        [model |-> "gemini-1.5-flash", temperature |-> 80, top_p |-> 90,
                         max_tokens |-> 256]>>]}
    ELSE {[prompt |-> <<"h","i">>,
           tuples |-> <<[model |-> "gemini-1.5-flash", temperature |-> 80, top_p |-> 90,
                         max_tokens |-> 256]>>]}

\* generateMultipleResponses is called for the request of run r
BeginConcurrent(r) ==
    /\ run[r].pc = "idle"
    /\ \E request \in ConcurrentRequests(r) :
         run' = [run EXCEPT ![r] = [IdleRun EXCEPT !.pc = "loop",
                                                  !.prompt = request.prompt,
                                                  !.tuples = request.tuples]]
    /\ UNCHANGED outsideRun

\* one step of either run; the event loop may take them in any order
NextConcurrent ==
    \E r \in RunIds :
        \/ BeginConcurrent(r)
        \/ CallInMockMode(r)
        \/ CallFirstModel(r)
        \/ ReturnRemote(r)
        \/ NextModel(r)
        \/ Backoff(r)
        \/ BackoffElapsed(r)
        \/ FallbackToMock(r)
        \/ RaiseFromCatch(r)
        \/ PaceElapsed(r)
        \/ Finish(r)

SpecConcurrent == Init /\ [][NextConcurrent]_vars

\* what run r holds comes from its own request: its prompt and tuples are
\* the ones it was called with, every result carries one of its own tuples,
\* and a mock result is one generateMockResponse gives for its own prompt
\* and that tuple
OwnResultsOnly(r) ==
    LET rec == run[r]
    IN  rec.pc # "idle" =>
          /\ [prompt |-> rec.prompt, tuples |-> rec.tuples] \in ConcurrentRequests(r)
          /\ \A k \in DOMAIN rec.results :
                /\ \E j \in DOMAIN rec.tuples : rec.results[k].parameters = rec.tuples[j]
                /\ rec.results[k].content.kind = "mock" =>
                      rec.results[k].content \in
                          GenerateMockResponse(rec.prompt, rec.results[k].parameters)

\* a step of one run leaves the other run and the service's field as they
\* were
TouchesOneRun ==
    /\ isMockMode' = isMockMode
    /\ \A r \in RunIds :
          run'[r] # run[r] => \A o \in RunIds \ {r} : run'[o] = run[o]

\* C24: two runs executing concurrently share no mutable state: under every
\* interleaving of their provider calls and pacing delays a step of one run
\* changes neither the other run nor the service, and each run's results
\* are made of its own tuples and its own prompt only
C24_RunsAreIndependent ==
    /\ [](\A r \in RunIds : OwnResultsOnly(r))
    /\ [][TouchesOneRun]_vars

\* with credentials: run 1 is in the pacing delay after a mock fallback for
\* its first tuple while run 2 awaits the provider, and run 1 holds a
\* result though run 2 has none
C24_Witness ==
    /\ ~isMockMode
    /\ run[1].pc = "pace"
    /\ run[2].pc = "await"
    /\ Len(run[1].results) = 1
    /\ run[1].results[1].content.kind = "mock"
    /\ run[2].results = <<>>

(***************************************************************************)
(* LLMService.constructor.  An environment variable is <<>> when unset and *)
(* <<value>> when set; calc keeps the environment the service was          *)
(* constructed in.                                                         *)
(***************************************************************************)
Environments ==
    [projectKey : {<<>>, <<"">>, <<"your_gemini_project_key_here">>, <<"gemini-project">>},
     projectName : {<<"your_gemini_project_name_here">>, <<"gemini-project">>},
     projectNumber : {<<>>, <<"1234">>}]

\* x && x !== placeholder
IsProvided(value, placeholder) == value # <<>> /\ value[1] # "" /\ value[1] # placeholder

\* variant: only the project key is looked at
Constructor_KeyOnly(env) ==
    ~IsProvided(env.projectKey, "your_gemini_project_key_here")

\* the value the constructor gives this.isMockMode
Constructor(env) ==
    ~(/\ IsProvided(env.projectKey, "your_gemini_project_key_here")
      /\ IsProvided(env.projectName, "your_gemini_project_name_here")
      /\ IsProvided(env.projectNumber, "your_gemini_project_number_here"))

InitService ==
    /\ run = [r \in RunIds |-> IdleRun]
    /\ http = NoRequest
    /\ db = EmptyDb
    /\ cron = NewCronService
    /\ \E env \in Environments :
          /\ calc = [fn |-> "constructor", env |-> env]
          /\ isMockMode = Constructor(env)

\* the service is constructed, then one experiment run uses it
SpecService == InitService /\ [][Next]_vars

\* a credential is missing: unset, empty, or still the placeholder of the
\* example environment file
CredentialsIncomplete ==
    /\ calc.fn = "constructor"
    /\ \/ calc.env.projectKey \in {<<>>, <<"">>, <<"your_gemini_project_key_here">>}
       \/ calc.env.projectName \in {<<>>, <<"">>, <<"your_gemini_project_name_here">>}
       \/ calc.env.projectNumber \in {<<>>, <<"">>, <<"your_gemini_project_number_here">>}

\* C25: a service constructed without complete credentials is in mock mode;
\* every generateResponse call of a run then resolves with a non-empty mock
\* result, and no request is ever submitted to the provider, however many
\* calls the run makes
C25_MockModeNeverCallsProvider ==
    CredentialsIncomplete =>
        /\ isMockMode
        /\ \A r \in RunIds :
              LET rec == run[r]
              IN  /\ rec.submitted = <<>>
                  /\ rec.inFlight = {}
                  /\ rec.pc \notin {"await", "backoff"}
                  /\ \A k \in DOMAIN rec.callStatus :
                        rec.callStatus[k] \in {"resolved", "skipped"}
                  /\ \A k \in DOMAIN rec.results :
                        /\ rec.results[k].content.kind = "mock"
                        /\ Len(MockText(rec.results[k].content)) > 0

\* only the project name is missing, and a run of two tuples has returned
\* two mock results
C25_Witness ==
    /\ CredentialsIncomplete
    /\ calc.env.projectKey = <<"gemini-project">>
    /\ calc.env.projectNumber = <<"1234">>
    /\ run[1].pc = "returned"
    /\ Len(run[1].returned[1]) = 2
    /\ \A k \in 1..2 : run[1].returned[1][k].content.kind = "mock"

(***************************************************************************)
(* Termination of an experiment run.  The provider settles every call it   *)
(* is sent, timers fire and the event loop runs every continuation that is *)
(* ready: each step of a run that has been called is taken if it stays     *)
(* enabled.  Nothing obliges a caller to call.                             *)
(***************************************************************************)
MaxLiveTuples == 2

LiveTupleLists ==
    SeqsUpTo({[model |-> "", temperature |-> 20, top_p |-> 90, max_tokens |-> 256],
              NoParams}, MaxLiveTuples)

BeginLive(r) ==
    /\ run[r].pc = "idle"
    /\ \E tuples \in LiveTupleLists :
         run' = [run EXCEPT ![r] = [IdleRun EXCEPT !.pc = "loop",
                                                  !.prompt = <<"h","i">>,
                                                  !.tuples = tuples]]
    /\ UNCHANGED outsideRun

\* the steps of a run once it has been called
Progress(r) ==
    \/ SkipInvalid(r)
    \/ CallInMockMode(r)
    \/ CallFirstModel(r)
    \/ ReturnRemote(r)
    \/ NextModel(r)
    \/ Backoff(r)
    \/ BackoffElapsed(r)
    \/ FallbackToMock(r)
    \/ RaiseFromCatch(r)
    \/ PaceElapsed(r)
    \/ Finish(r)

NextLive == BeginLive(1) \/ Progress(1)

SpecLive == Init /\ [][NextLive]_vars /\ WF_vars(Progress(1))

\* run r stays within its budget: at most 4 requests submitted in a call,
\* at most one call per tuple, at most n - 1 pacing delays
WithinBudget(r) ==
    LET rec == run[r]
        n == Len(rec.tuples)
    IN  /\ Len(rec.submitted) <= 4
        /\ Len(rec.callStatus) <= n
        /\ rec.i <= n
        /\ Len(rec.delays) <= IF n = 0 THEN 0 ELSE n - 1

\* C26: an experiment run terminates: whatever the tuple list and whatever
\* the provider answers, once generateMultipleResponses has been called it
\* eventually returns, having submitted at most 4 requests for each tuple
\* (one call per tuple, so 4n in total) and waited at most n - 1 pacing
\* delays
C26_RunTerminatesWithinBudget ==
    /\ [](WithinBudget(1))
    /\ (run[1].pc # "idle") ~> (run[1].pc = "returned")

\* a run of two tuples has returned; the call for the second tuple went
\* through all four models, and the one pacing delay has elapsed
C26_Witness ==
    /\ run[1].pc = "returned"
    /\ Len(run[1].tuples) = 2
    /\ Len(run[1].submitted) = 4
    /\ Len(run[1].delays) = 1

(***************************************************************************)
(* The export summary (routes/export.ts) over the responses a generation   *)
(* request stored.  calc keeps the stored metrics of the responses, the    *)
(* averageMetrics the generation request returned, and the averageMetrics  *)
(* of the export.  An object without fields is <<>>.                       *)
(***************************************************************************)
\* calculateAverageMetrics(experiment.results)
CalculateAverageMetrics(results) ==
    IF Len(results) = 0 THEN <<>>
    ELSE LET totals ==
                 [coherence |-> SumSeq([k \in DOMAIN results |->
                                          ScoreOrZero(results[k].coherence)]),
                  completeness |-> SumSeq([k \in DOMAIN results |->
                                             ScoreOrZero(results[k].completeness)]),
                  readability |-> SumSeq([k \in DOMAIN results |->
                                            ScoreOrZero(results[k].readability)]),
                  relevance |-> SumSeq([k \in DOMAIN results |->
                                          ScoreOrZero(results[k].relevance)]),
                  overallScore |-> SumSeq([k \in DOMAIN results |->
                                             ScoreOrZero(results[k].overallScore)])]
         IN  [coherence |-> AverageOf(totals.coherence, Len(results)),
              completeness |-> AverageOf(totals.completeness, Len(results)),
              readability |-> AverageOf(totals.readability, Len(results)),
              relevance |-> AverageOf(totals.relevance, Len(results)),
              overallScore |-> AverageOf(totals.overallScore, Len(results))]

InitExport ==
    /\ isMockMode = FALSE
    /\ run = [r \in RunIds |-> IdleRun]
    /\ http = NoRequest
    /\ db = EmptyDb
    /\ cron = NewCronService
    /\ calc \in [fn : {"export"}, prompt : ScorePrompts,
                 contents : SeqsUpTo(SummaryContents, MaxResponses),
                 stored : {<<>>}, returned : {<<>>}, exported : {<<>>}]

\* the generation request scores and stores the responses and returns
\* averageMetrics
StoreResponses ==
    /\ calc.fn = "export"
    /\ calc.returned = <<>>
    /\ LET responses == [k \in DOMAIN calc.contents |->
                           CalculateAllMetrics(calc.contents[k], calc.prompt).metrics]
       IN  calc' = [calc EXCEPT !.stored = responses,
                                !.returned = <<AverageMetrics(responses)>>]
    /\ UNCHANGED <<isMockMode, run, http, db, cron>>

\* an export request for the experiment builds its summary
ExportSummary ==
    /\ calc.fn = "export"
    /\ calc.returned # <<>>
    /\ calc.exported = <<>>
    /\ calc' = [calc EXCEPT !.exported = <<CalculateAverageMetrics(calc.stored)>>]
    /\ UNCHANGED <<isMockMode, run, http, db, cron>>

NextExport == StoreResponses \/ ExportSummary

SpecExport == InitExport /\ [][NextExport]_vars

\* C27: for the stored responses of an experiment (at least one), the
\* overallScore of the export summary's averageMetrics equals the
\* averageMetrics.overallScore the generation request returned
C27_ExportOverallEqualsReturned ==
    (calc.fn = "export" /\ calc.exported # <<>> /\ calc.stored # <<>>) =>
        calc.exported[1].overallScore = calc.returned[1].overallScore

\* the request has completed with success or with a server error
Completed == http.pc = "responded" /\ http.status \in {200, 500}

\* C28: after a generation request has completed, with success or with a
\* server error, the stored experiment's totalRuns equals the number of
\* response records stored for it, and every stored response has exactly
\* four metricCalculation records, one for each of coherence, completeness,
\* readability and relevance
C28_StoredRecordsConsistent ==
    Completed =>
        /\ \A e \in DOMAIN db.experiments :
              db.experiments[e].totalRuns =
                  Cardinality({k \in DOMAIN db.responses :
                                  db.responses[k].experimentId = db.experiments[e].id})
        /\ \A k \in DOMAIN db.responses :
              LET records == {m \in DOMAIN db.metricCalculations :
                                 db.metricCalculations[m].responseId = db.responses[k].id}
              IN  /\ Cardinality(records) = 4
                  /\ \A type \in {"coherence", "completeness", "readability", "relevance"} :
                        \E m \in records : db.metricCalculations[m].metricType = type

(***************************************************************************)
(* CronService.  cron holds one service object and what it has set going:  *)
(*   isRunning, cronTask   the two fields; cronTask is <<>> for null and   *)
(*              <<id>> for the task created by the id-th cron.schedule     *)
(*   scheduled  the tasks the scheduler still runs (created, not stopped)  *)
(*   created    the number of cron.schedule calls made                     *)
(*   timers     the start-up setTimeout callbacks not yet run              *)
(*   pings      the number of pingHealthCheck calls made                   *)
(*   status     <<value>> of the latest getStatus call                     *)
(* and, recorded for the properties only:                                  *)
(*   op         the method or callback that ran last                       *)
(*   lastCall   the latest of start and stop to have returned              *)
(***************************************************************************)
MaxStarts == 2

MaxPings == 2

\* start(): nothing but a log line when already running; otherwise
\* cron.schedule, the start-up setTimeout, isRunning = true
Start ==
    /\ cron.isRunning \/ cron.created < MaxStarts
    /\ cron' = IF cron.isRunning
               THEN [cron EXCEPT !.op = "start", !.lastCall = "start"]
               ELSE [cron EXCEPT !.cronTask = <<cron.created + 1>>,
                                 !.scheduled = @ \cup {cron.created + 1},
                                 !.created = @ + 1,
                                 !.timers = @ + 1,
                                 !.isRunning = TRUE,
                                 !.op = "start", !.lastCall = "start"]
    /\ UNCHANGED <<isMockMode, run, calc, http, db>>

\* variant: stop() drops the task without stopping it
Stop_TaskNotStopped ==
    /\ cron' = IF ~cron.isRunning
               THEN [cron EXCEPT !.op = "stop", !.lastCall = "stop"]
               ELSE [cron EXCEPT !.cronTask = <<>>,
                                 !.isRunning = FALSE,
                                 !.op = "stop", !.lastCall = "stop"]
    /\ UNCHANGED <<isMockMode, run, calc, http, db>>

\* stop(): nothing but a log line when not running; otherwise
\* cronTask.stop(), cronTask = null, isRunning = false
Stop ==
    /\ cron' = IF ~cron.isRunning
               THEN [cron EXCEPT !.op = "stop", !.lastCall = "stop"]
               ELSE [cron EXCEPT !.scheduled = IF cron.cronTask # <<>>
                                               THEN @ \ {cron.cronTask[1]} ELSE @,
                                 !.cronTask = <<>>,
                                 !.isRunning = FALSE,
                                 !.op = "stop", !.lastCall = "stop"]
    /\ UNCHANGED <<isMockMode, run, calc, http, db>>

\* the schedule of a task that still runs comes due: pingHealthCheck
CronTick ==
    /\ cron.scheduled # {}
    /\ cron.pings < MaxPings
    /\ cron' = [cron EXCEPT !.pings = @ + 1, !.op = "tick"]
    /\ UNCHANGED <<isMockMode, run, calc, http, db>>

\* a start-up timeout (5000 ms after its start) expires: pingHealthCheck
StartupTimeout ==
    /\ cron.timers > 0
    /\ cron.pings < MaxPings
    /\ cron' = [cron EXCEPT !.timers = @ - 1, !.pings = @ + 1, !.op = "timeout"]
    /\ UNCHANGED <<isMockMode, run, calc, http, db>>

\* getStatus()
GetStatus ==
    /\ cron' = [cron EXCEPT !.status = <<[running |-> cron.isRunning,
                                          cronExpression |-> "*/5 * * * *",
                                          serverUrl |-> "http://localhost:3001"]>>,
                            !.op = "getStatus"]
    /\ UNCHANGED <<isMockMode, run, calc, http, db>>

NextCron == Start \/ Stop \/ CronTick \/ StartupTimeout \/ GetStatus

SpecCron == Init /\ [][NextCron]_vars

\* a health-check ping is issued in this step
PingIssued == cron'.pings > cron.pings

\* C29: after stop() has returned, no health-check ping is issued until
\* start() is called again, for every sequence of start and stop calls,
\* a stop within 5 seconds of a start included
C29_NoPingAfterStop ==
    [][PingIssued => cron.lastCall # "stop"]_vars

\* the fields and what the service has set going are left as they were
CronUntouched ==
    /\ cron'.isRunning = cron.isRunning
    /\ cron'.cronTask = cron.cronTask
    /\ cron'.scheduled = cron.scheduled
    /\ cron'.timers = cron.timers
    /\ cron'.pings = cron.pings

\* isRunning is true exactly when a scheduled task exists, and there is at
\* most one
OneTaskWhenRunning ==
    /\ cron.isRunning <=> cron.cronTask # <<>>
    /\ cron.isRunning <=> cron.scheduled # {}
    /\ Cardinality(cron.scheduled) <= 1
    /\ cron.cronTask # <<>> => cron.scheduled = {cron.cronTask[1]}

\* C30: after every sequence of start() and stop() calls, isRunning is true
\* exactly when a scheduled task exists, at most one scheduled task
\* exists, start() on a running service and stop() on a stopped service
\* change nothing, and getStatus().running equals isRunning
C30_RunningIffOneTask ==
    /\ []OneTaskWhenRunning
    /\ [][/\ (cron'.op = "start" /\ cron.isRunning) => CronUntouched
          /\ (cron'.op = "stop" /\ ~cron.isRunning) => CronUntouched
          /\ cron'.op = "getStatus" =>
                /\ CronUntouched
                /\ cron'.status[1].running = cron.isRunning]_vars

\* the service was started, stopped and started again: the second task is
\* the only one scheduled, and getStatus has just reported running
C30_Witness ==
    /\ cron.created = 2
    /\ cron.isRunning
    /\ cron.scheduled = {2}
    /\ cron.op = "getStatus"
    /\ cron.status[1].running

====
